---- MODULE Spec2Model ----
(***************************************************************************)
(* RetroGames: the two Game objects (SpaceInvadersGame, FlappyBirdGame)    *)
(* driven through the Game contract update(dt, input) / reset().           *)
(*                                                                         *)
(* Arithmetic.  The source computes in float.  The model computes exactly  *)
(* in fixed point: time in milliseconds, positions in 1/10000 of a game    *)
(* unit (U), velocities in 1/10 of a unit per second (V).  With these      *)
(* units  pos += velocity * dt  is the integer product  v * dt.            *)
(***************************************************************************)
EXTENDS Integers, Sequences, FiniteSets, TLC

VARIABLES
    game,     \* which object the behaviour drives: "si", "fb", "input", "rect",
              \* "clock", "gm", "font"
    si,       \* the SpaceInvadersGame object
    fb,       \* the FlappyBirdGame object
    frames,   \* update() calls since construction/reset/seed (model budget)
    last,     \* what the last call was and what it did (history)
    input,    \* the InputManager with the device state it last read
    rect,     \* two Rectangles and what intersects returned for them
    gm,       \* the GameManager: its members and the locals of run()
    fmgr      \* the renderer's FontManager and what its last call did

vars == <<game, si, fb, frames, last, input, rect, gm, fmgr>>

\* ---------------------------------------------------------------- units
U == 10000
V == 10
MsPerSec == 1000

Playing == "Playing"
GameOver == "GameOver"
GameStates == {"Menu", "Playing", "Paused", "GameOver"}

Max(a, b) == IF a >= b THEN a ELSE b
Min(a, b) == IF a <= b THEN a ELSE b

\* ------------------------------------------------------ core/math.hpp
\* intersects comparing this rectangle's left edge with the other's left edge
intersects_LeftEdges(ax, ay, aw, ah, bx, by, bw, bh) ==
    ~(  2 * ax + aw < 2 * bx - bw
     \/ 2 * ax - aw > 2 * bx - bw
     \/ 2 * ay + ah < 2 * by - bh
     \/ 2 * ay - ah > 2 * by + bh )

\* intersects counting touching edges as separated
intersects_Strict(ax, ay, aw, ah, bx, by, bw, bh) ==
    ~(  2 * ax + aw <= 2 * bx - bw
     \/ 2 * ax - aw >= 2 * bx + bw
     \/ 2 * ay + ah <= 2 * by - bh
     \/ 2 * ay - ah >= 2 * by + bh )

\* Rectangle::intersects on entities e = [x, y] with full sizes (w, h)
intersects(ax, ay, aw, ah, bx, by, bw, bh) ==
    ~(  2 * ax + aw < 2 * bx - bw
     \/ 2 * ax - aw > 2 * bx + bw
     \/ 2 * ay + ah < 2 * by - bh
     \/ 2 * ay - ah > 2 * by + bh )

\* Rectangle::intersects on records [x, y, w, h]
RectIntersects(r, other) ==
    intersects(r.x, r.y, r.w, r.h, other.x, other.y, other.w, other.h)

\* ----------------------------------------------------- core/entity.hpp
\* Entity::getBounds
getBounds(e) == [x |-> e.x, y |-> e.y, w |-> e.w, h |-> e.h]

\* Entity::collidesWith
collidesWith(e, other) == RectIntersects(getBounds(e), getBounds(other))

\* ------------------------------------------------------ core/input.hpp
\* the stick reading is a Sint16; the axis is modelled in 1/32767 of a unit,
\* so that  controller_axis / 32767.0f  is the reading itself
AXIS_FULL == 32767
STICK_DEADZONE == 8000
STICK_MIN == -32768
STICK_MAX == 32767

Abs(n) == IF n < 0 THEN -1 * n ELSE n

\* InputManager::InputManager, has_controller = a controller was opened
NewInputManager(has_controller) ==
    [controller_ |-> has_controller,
     prev_shoot_pressed_ |-> FALSE, curr_shoot_pressed_ |-> FALSE]

\* InputManager::update reading space, up, return and the controller's A
InputUpdate(im, space, up, ret, button_a) ==
    [im EXCEPT !.prev_shoot_pressed_ = im.curr_shoot_pressed_,
               !.curr_shoot_pressed_ =
                   space \/ up \/ ret \/ (im.controller_ /\ button_a)]

\* isShootJustPressed looking at the current sample only
isShootJustPressed_Level(im) == im.curr_shoot_pressed_

\* InputManager::isShootJustPressed
isShootJustPressed(im) == im.curr_shoot_pressed_ /\ ~im.prev_shoot_pressed_

\* InputManager::getHorizontalAxis reading left, A, right, D and the left
\* stick; the result in 1/32767 of a unit
getHorizontalAxis(im, left, a, right, d, controller_axis) ==
    LET axis0 == 0
        axis1 == IF left \/ a THEN axis0 - AXIS_FULL ELSE axis0
        axis2 == IF right \/ d THEN axis1 + AXIS_FULL ELSE axis1
    IN  IF im.controller_ /\ Abs(controller_axis) > STICK_DEADZONE
        THEN controller_axis
        ELSE axis2

\* --------------------------------------------- space_invaders.hpp
SCREEN_W == 800
SCREEN_H == 600
PLAYER_SIZE == 20
PLAYER_Y == 50
PLAYER_SPEED == 200
FIRE_COOLDOWN == 200
INVADER_SIZE == 15
INVADER_SPEED == 20
BULLET_W == 2
BULLET_H == 5
BULLET_SPEED == 300
ROWS == 5
COLS == 10
INVADER_TICK == 1000
EDGE_LEFT == 20
EDGE_RIGHT == 780
DROP == 10
REACH_Y == 70
HIT_SCORE == 10

\* Player::Player(screen_width)
NewPlayer(screen_width) ==
    [x |-> (screen_width * U) \div 2, y |-> PLAYER_Y * U, vx |-> 0, fire_cooldown |-> 0]

\* Player::update without the clamp at the right of the screen
PlayerUpdate_NoRightClamp(p, dt) ==
    LET x1 == p.x + p.vx * dt
        x2 == IF 2 * x1 < PLAYER_SIZE * U THEN (PLAYER_SIZE * U) \div 2 ELSE x1
    IN  [p EXCEPT !.x = x2, !.fire_cooldown = Max(0, p.fire_cooldown - dt)]

\* Player::update(dt)
PlayerUpdate(p, dt) ==
    LET x1 == p.x + p.vx * dt
        x2 == IF 2 * x1 < PLAYER_SIZE * U THEN (PLAYER_SIZE * U) \div 2 ELSE x1
        x3 == IF 2 * x2 > 2 * SCREEN_W * U - PLAYER_SIZE * U
              THEN SCREEN_W * U - (PLAYER_SIZE * U) \div 2 ELSE x2
    IN  [p EXCEPT !.x = x3, !.fire_cooldown = Max(0, p.fire_cooldown - dt)]

\* canFire with the comparison made strict
canFire_Strict(p) == p.fire_cooldown < 0

\* Player::canFire
canFire(p) == p.fire_cooldown <= 0

\* Player::fired
fired(p) == [p EXCEPT !.fire_cooldown = FIRE_COOLDOWN]

\* Invader::Invader(position)
NewInvader(px, py) == [x |-> px, y |-> py, vx |-> INVADER_SPEED * V, active |-> TRUE]

\* Invader::update(dt)
InvaderUpdate(i, dt) == [i EXCEPT !.x = i.x + i.vx * dt]

\* Bullet::Bullet(position, vel, player_bullet = true)
NewBullet(px, py) == [x |-> px, y |-> py, active |-> TRUE, is_player_bullet |-> TRUE]

\* Bullet::update(dt)
BulletUpdate(b, dt) ==
    LET y1 == b.y + BULLET_SPEED * V * dt
    IN  [b EXCEPT !.y = y1,
                  !.active = IF y1 < 0 \/ y1 > SCREEN_H * U THEN FALSE ELSE b.active]

\* Entity::collidesWith, bullet against invader
BulletHits(b, i) ==
    intersects(b.x, b.y, BULLET_W * U, BULLET_H * U,
               i.x, i.y, INVADER_SIZE * U, INVADER_SIZE * U)

\* SpaceInvadersGame::createInvaders: row-major, 5 rows of 10
createInvaders ==
    [k \in 1..(ROWS * COLS) |->
        LET row == (k - 1) \div COLS
            col == (k - 1) % COLS
        IN  NewInvader(50 * U + col * 60 * U, 600 * U - 100 * U - row * 30 * U)]

\* updateInvaders carrying the time beyond the tick over to the next one
updateInvaders_CarryTimer(g, dt) ==
    LET t1 == g.invader_move_timer_ + dt
    IN  IF ~(t1 > INVADER_TICK)
        THEN [g EXCEPT !.invader_move_timer_ = t1]
        ELSE
          LET moved == [k \in DOMAIN g.invaders_ |->
                          LET i == g.invaders_[k]
                          IN  IF i.active THEN [i EXCEPT !.x = i.x + (i.vx * U) \div V]
                              ELSE i]
              change_direction ==
                  \E k \in DOMAIN moved :
                      /\ moved[k].active
                      /\ (moved[k].x < EDGE_LEFT * U \/ moved[k].x > EDGE_RIGHT * U)
              dir1 == -1 * g.invader_direction_
              dropped == [k \in DOMAIN moved |->
                            LET i == moved[k]
                            IN  IF i.active
                                THEN [i EXCEPT !.vx = INVADER_SPEED * V * dir1,
                                               !.y = i.y - DROP * U]
                                ELSE i]
              reached == \E k \in DOMAIN dropped :
                            dropped[k].active /\ dropped[k].y <= REACH_Y * U
          IN  IF change_direction
              THEN [g EXCEPT !.invader_move_timer_ = t1 - INVADER_TICK,
                             !.invader_direction_ = dir1,
                             !.invaders_ = dropped,
                             !.state_ = IF reached THEN GameOver ELSE g.state_]
              ELSE [g EXCEPT !.invader_move_timer_ = t1 - INVADER_TICK,
                             !.invaders_ = moved]

\* updateInvaders with the test against the player's line made strict
updateInvaders_StrictReach(g, dt) ==
    LET t1 == g.invader_move_timer_ + dt
    IN  IF ~(t1 > INVADER_TICK)
        THEN [g EXCEPT !.invader_move_timer_ = t1]
        ELSE
          LET moved == [k \in DOMAIN g.invaders_ |->
                          LET i == g.invaders_[k]
                          IN  IF i.active THEN [i EXCEPT !.x = i.x + (i.vx * U) \div V]
                              ELSE i]
              change_direction ==
                  \E k \in DOMAIN moved :
                      /\ moved[k].active
                      /\ (moved[k].x < EDGE_LEFT * U \/ moved[k].x > EDGE_RIGHT * U)
              dir1 == -1 * g.invader_direction_
              dropped == [k \in DOMAIN moved |->
                            LET i == moved[k]
                            IN  IF i.active
                                THEN [i EXCEPT !.vx = INVADER_SPEED * V * dir1,
                                               !.y = i.y - DROP * U]
                                ELSE i]
              reached == \E k \in DOMAIN dropped :
                            dropped[k].active /\ dropped[k].y < REACH_Y * U
          IN  IF change_direction
              THEN [g EXCEPT !.invader_move_timer_ = 0,
                             !.invader_direction_ = dir1,
                             !.invaders_ = dropped,
                             !.state_ = IF reached THEN GameOver ELSE g.state_]
              ELSE [g EXCEPT !.invader_move_timer_ = 0,
                             !.invaders_ = moved]

\* updateInvaders turning the formation round without bringing it down
updateInvaders_NoDrop(g, dt) ==
    LET t1 == g.invader_move_timer_ + dt
    IN  IF ~(t1 > INVADER_TICK)
        THEN [g EXCEPT !.invader_move_timer_ = t1]
        ELSE
          LET moved == [k \in DOMAIN g.invaders_ |->
                          LET i == g.invaders_[k]
                          IN  IF i.active THEN [i EXCEPT !.x = i.x + (i.vx * U) \div V]
                              ELSE i]
              change_direction ==
                  \E k \in DOMAIN moved :
                      /\ moved[k].active
                      /\ (moved[k].x < EDGE_LEFT * U \/ moved[k].x > EDGE_RIGHT * U)
              dir1 == -1 * g.invader_direction_
              dropped == [k \in DOMAIN moved |->
                            LET i == moved[k]
                            IN  IF i.active
                                THEN [i EXCEPT !.vx = INVADER_SPEED * V * dir1]
                                ELSE i]
              reached == \E k \in DOMAIN dropped :
                            dropped[k].active /\ dropped[k].y <= REACH_Y * U
          IN  IF change_direction
              THEN [g EXCEPT !.invader_move_timer_ = 0,
                             !.invader_direction_ = dir1,
                             !.invaders_ = dropped,
                             !.state_ = IF reached THEN GameOver ELSE g.state_]
              ELSE [g EXCEPT !.invader_move_timer_ = 0,
                             !.invaders_ = moved]

\* updateInvaders turning round and dropping only the invaders past an edge
updateInvaders_TurnOffenders(g, dt) ==
    LET t1 == g.invader_move_timer_ + dt
    IN  IF ~(t1 > INVADER_TICK)
        THEN [g EXCEPT !.invader_move_timer_ = t1]
        ELSE
          LET moved == [k \in DOMAIN g.invaders_ |->
                          LET i == g.invaders_[k]
                          IN  IF i.active THEN [i EXCEPT !.x = i.x + (i.vx * U) \div V]
                              ELSE i]
              change_direction ==
                  \E k \in DOMAIN moved :
                      /\ moved[k].active
                      /\ (moved[k].x < EDGE_LEFT * U \/ moved[k].x > EDGE_RIGHT * U)
              dir1 == -1 * g.invader_direction_
              dropped == [k \in DOMAIN moved |->
                            LET i == moved[k]
                            IN  IF i.active /\ (i.x < EDGE_LEFT * U \/ i.x > EDGE_RIGHT * U)
                                THEN [i EXCEPT !.vx = INVADER_SPEED * V * dir1,
                                               !.y = i.y - DROP * U]
                                ELSE i]
              reached == \E k \in DOMAIN dropped :
                            dropped[k].active /\ dropped[k].y <= REACH_Y * U
          IN  IF change_direction
              THEN [g EXCEPT !.invader_move_timer_ = 0,
                             !.invader_direction_ = dir1,
                             !.invaders_ = dropped,
                             !.state_ = IF reached THEN GameOver ELSE g.state_]
              ELSE [g EXCEPT !.invader_move_timer_ = 0,
                             !.invaders_ = moved]

\* SpaceInvadersGame::updateInvaders(dt)
updateInvaders(g, dt) ==
    LET t1 == g.invader_move_timer_ + dt
    IN  IF ~(t1 > INVADER_TICK)
        THEN [g EXCEPT !.invader_move_timer_ = t1]
        ELSE
          LET moved == [k \in DOMAIN g.invaders_ |->
                          LET i == g.invaders_[k]
                          IN  IF i.active THEN [i EXCEPT !.x = i.x + (i.vx * U) \div V]
                              ELSE i]
              change_direction ==
                  \E k \in DOMAIN moved :
                      /\ moved[k].active
                      /\ (moved[k].x < EDGE_LEFT * U \/ moved[k].x > EDGE_RIGHT * U)
              dir1 == -1 * g.invader_direction_
              dropped == [k \in DOMAIN moved |->
                            LET i == moved[k]
                            IN  IF i.active
                                THEN [i EXCEPT !.vx = INVADER_SPEED * V * dir1,
                                               !.y = i.y - DROP * U]
                                ELSE i]
              reached == \E k \in DOMAIN dropped :
                            dropped[k].active /\ dropped[k].y <= REACH_Y * U
          IN  IF change_direction
              THEN [g EXCEPT !.invader_move_timer_ = 0,
                             !.invader_direction_ = dir1,
                             !.invaders_ = dropped,
                             !.state_ = IF reached THEN GameOver ELSE g.state_]
              ELSE [g EXCEPT !.invader_move_timer_ = 0,
                             !.invaders_ = moved]

\* what the formation tick of an update did, read off the object before and
\* after updateInvaders: nothing when the timer did not run out
NoTick ==
    [ticked |-> FALSE, before |-> <<>>, after |-> <<>>,
     dir_before |-> 0, dir_after |-> 0, state_after |-> Playing]

TickOf(g1, g2, dt) ==
    IF ~(g1.invader_move_timer_ + dt > INVADER_TICK) THEN NoTick
    ELSE [ticked |-> TRUE, before |-> g1.invaders_, after |-> g2.invaders_,
          dir_before |-> g1.invader_direction_, dir_after |-> g2.invader_direction_,
          state_after |-> g2.state_]

\* inner loop of checkCollisions: the first active invader, from index k on,
\* that bullet b collides with (0 if none)
RECURSIVE FirstHit(_, _, _)
FirstHit(b, invs, k) ==
    IF k > Len(invs) THEN 0
    ELSE IF invs[k].active /\ BulletHits(b, invs[k]) THEN k
    ELSE FirstHit(b, invs, k + 1)

\* the outer loop with `invader->active = false` left out
RECURSIVE CollideFrom_KeepInvader(_, _)
CollideFrom_KeepInvader(j, acc) ==
    IF j > Len(acc.bullets) THEN acc
    ELSE LET b == acc.bullets[j]
         IN  IF ~b.active \/ ~b.is_player_bullet THEN CollideFrom_KeepInvader(j + 1, acc)
             ELSE LET h == FirstHit(b, acc.invaders, 1)
                  IN  IF h = 0 THEN CollideFrom_KeepInvader(j + 1, acc)
                      ELSE CollideFrom_KeepInvader(j + 1,
                             [acc EXCEPT !.bullets[j].active = FALSE,
                                         !.score = acc.score + HIT_SCORE,
                                         !.hits = acc.hits \cup {<<j, h>>}])

\* outer loop of checkCollisions from bullet j on; acc = [bullets, invaders,
\* score, hits], hits being the <<bullet index, invader index>> pairs
RECURSIVE CollideFrom(_, _)
CollideFrom(j, acc) ==
    IF j > Len(acc.bullets) THEN acc
    ELSE LET b == acc.bullets[j]
         IN  IF ~b.active \/ ~b.is_player_bullet THEN CollideFrom(j + 1, acc)
             ELSE LET h == FirstHit(b, acc.invaders, 1)
                  IN  IF h = 0 THEN CollideFrom(j + 1, acc)
                      ELSE CollideFrom(j + 1,
                             [bullets  |-> [acc.bullets EXCEPT ![j].active = FALSE],
                              invaders |-> [acc.invaders EXCEPT ![h].active = FALSE],
                              score    |-> acc.score + HIT_SCORE,
                              hits     |-> acc.hits \cup {<<j, h>>}])

\* checkCollisions with the call of createInvaders left out
checkCollisions_NoNewWave(g) ==
    LET r == CollideFrom(1, [bullets |-> g.bullets_, invaders |-> g.invaders_,
                             score |-> g.score_, hits |-> {}])
    IN  [g    |-> [g EXCEPT !.bullets_ = r.bullets, !.invaders_ = r.invaders,
                            !.score_ = r.score],
         hits |-> r.hits,
         wave |-> ~(\E k \in DOMAIN r.invaders : r.invaders[k].active)]

\* checkCollisions whose new wave starts like a reset game: moving right,
\* the move timer at 0
checkCollisions_WaveRestarts(g) ==
    LET r == CollideFrom(1, [bullets |-> g.bullets_, invaders |-> g.invaders_,
                             score |-> g.score_, hits |-> {}])
        any_active == \E k \in DOMAIN r.invaders : r.invaders[k].active
        g1 == [g EXCEPT !.bullets_ = r.bullets,
                        !.invaders_ = IF any_active THEN r.invaders ELSE createInvaders,
                        !.score_ = r.score]
    IN  [g    |-> IF any_active THEN g1
                  ELSE [g1 EXCEPT !.invader_direction_ = 1, !.invader_move_timer_ = 0],
         hits |-> r.hits,
         wave |-> ~any_active]

\* SpaceInvadersGame::checkCollisions; also reports the hits and whether a
\* new wave was created
checkCollisions(g) ==
    LET r == CollideFrom(1, [bullets |-> g.bullets_, invaders |-> g.invaders_,
                             score |-> g.score_, hits |-> {}])
        any_active == \E k \in DOMAIN r.invaders : r.invaders[k].active
    IN  [g    |-> [g EXCEPT !.bullets_ = r.bullets,
                            !.invaders_ = IF any_active THEN r.invaders ELSE createInvaders,
                            !.score_ = r.score],
         hits |-> r.hits,
         wave |-> ~any_active]

IsActive(e) == e.active

\* cleanupEntities with the erase of bullets_ left out
cleanupEntities_KeepBullets(g) ==
    [g EXCEPT !.invaders_ = SelectSeq(g.invaders_, IsActive)]

\* SpaceInvadersGame::cleanupEntities
cleanupEntities(g) ==
    [g EXCEPT !.bullets_ = SelectSeq(g.bullets_, IsActive),
              !.invaders_ = SelectSeq(g.invaders_, IsActive)]

\* reset with bullets_.clear() left out
SIReset_KeepBullets(g) ==
    [state_ |-> Playing, score_ |-> 0, invader_move_timer_ |-> 0,
     invader_direction_ |-> 1, player_ |-> NewPlayer(SCREEN_W),
     bullets_ |-> g.bullets_, invaders_ |-> createInvaders]

\* SpaceInvadersGame::reset
SIReset(g) ==
    [state_ |-> Playing, score_ |-> 0, invader_move_timer_ |-> 0,
     invader_direction_ |-> 1, player_ |-> NewPlayer(SCREEN_W),
     bullets_ |-> <<>>, invaders_ |-> createInvaders]

\* the members of a SpaceInvadersGame before its constructor body runs
SIMembers ==
    [state_ |-> Playing, score_ |-> 0, invader_move_timer_ |-> 0,
     invader_direction_ |-> 1,
     player_ |-> [x |-> 0, y |-> 0, vx |-> 0, fire_cooldown |-> 0],   \* null until reset()
     bullets_ |-> <<>>, invaders_ |-> <<>>]

\* SpaceInvadersGame::update(dt, input) past its first line, with
\* axis = input.getHorizontalAxis(), shoot = input.isShootJustPressed().
\* Returns the new object and the events of the frame.
SIUpdatePlaying(g, dt, axis, shoot) ==
    LET p1 == PlayerUpdate([g.player_ EXCEPT !.vx = axis * PLAYER_SPEED * V], dt)
        fire == shoot /\ canFire(p1)
        p2 == IF fire THEN fired(p1) ELSE p1
        bs1 == IF fire
               THEN Append(g.bullets_, NewBullet(p1.x, p1.y + (PLAYER_SIZE * U) \div 2))
               ELSE g.bullets_
        bs2 == [k \in DOMAIN bs1 |-> BulletUpdate(bs1[k], dt)]
        is2 == [k \in DOMAIN g.invaders_ |-> InvaderUpdate(g.invaders_[k], dt)]
        g1 == [g EXCEPT !.player_ = p2, !.bullets_ = bs2, !.invaders_ = is2]
        g2 == updateInvaders(g1, dt)
        c  == checkCollisions(g2)
    IN  [g |-> cleanupEntities(c.g), fired |-> fire, hits |-> c.hits, wave |-> c.wave,
         tick |-> TickOf(g1, g2, dt)]

\* the object as update() hands it to checkCollisions(): after the player's
\* update, the shot, the entities' updates and updateInvaders(dt)
SIMoved(g, dt, axis, shoot) ==
    LET p1 == PlayerUpdate([g.player_ EXCEPT !.vx = axis * PLAYER_SPEED * V], dt)
        fire == shoot /\ canFire(p1)
        p2 == IF fire THEN fired(p1) ELSE p1
        bs1 == IF fire
               THEN Append(g.bullets_, NewBullet(p1.x, p1.y + (PLAYER_SIZE * U) \div 2))
               ELSE g.bullets_
        bs2 == [k \in DOMAIN bs1 |-> BulletUpdate(bs1[k], dt)]
        is2 == [k \in DOMAIN g.invaders_ |-> InvaderUpdate(g.invaders_[k], dt)]
    IN  updateInvaders([g EXCEPT !.player_ = p2, !.bullets_ = bs2, !.invaders_ = is2], dt)

\* update without the early return
SIUpdate_Always(g, dt, axis, shoot) == SIUpdatePlaying(g, dt, axis, shoot)

\* SpaceInvadersGame::update(dt, input)
SIUpdate(g, dt, axis, shoot) ==
    IF g.state_ # Playing
    THEN [g |-> g, fired |-> FALSE, hits |-> {}, wave |-> FALSE, tick |-> NoTick]
    ELSE SIUpdatePlaying(g, dt, axis, shoot)

\* ------------------------------------------------- flappy_bird.hpp
GRAVITY == -800
JUMP_STRENGTH == 350
BIRD_X == 100
BIRD_Y == 300
BIRD_SIZE == 20
PIPE_WIDTH == 60
GAP_SIZE == 150
PIPE_SPEED == 150
PIPE_SPAWN_X == 850
PIPE_SPAWN_TIME == 2500
GAP_MIN == 150
GAP_MAX == 450
GROUND_MARGIN == 1

\* Bird::Bird
NewBird == [x |-> BIRD_X * U, y |-> BIRD_Y * U, velocity_y |-> 0]

\* Bird::update moving the bird before applying gravity
BirdUpdate_PositionFirst(b, dt) ==
    LET y1 == b.y + b.velocity_y * dt
        v1 == b.velocity_y + (GRAVITY * V * dt) \div MsPerSec
        lo == 2 * y1 < BIRD_SIZE * U
        y2 == IF lo THEN (BIRD_SIZE * U) \div 2 ELSE y1
        v2 == IF lo THEN 0 ELSE v1
        hi == 2 * y2 > 2 * SCREEN_H * U - BIRD_SIZE * U
        y3 == IF hi THEN SCREEN_H * U - (BIRD_SIZE * U) \div 2 ELSE y2
        v3 == IF hi THEN 0 ELSE v2
    IN  [b EXCEPT !.y = y3, !.velocity_y = v3]

\* Bird::update clamping the height and leaving the velocity as it is
BirdUpdate_KeepVelocity(b, dt) ==
    LET v1 == b.velocity_y + (GRAVITY * V * dt) \div MsPerSec
        y1 == b.y + v1 * dt
        y2 == IF 2 * y1 < BIRD_SIZE * U THEN (BIRD_SIZE * U) \div 2 ELSE y1
        y3 == IF 2 * y2 > 2 * SCREEN_H * U - BIRD_SIZE * U
              THEN SCREEN_H * U - (BIRD_SIZE * U) \div 2 ELSE y2
    IN  [b EXCEPT !.y = y3, !.velocity_y = v1]

\* Bird::update(dt)
BirdUpdate(b, dt) ==
    LET v1 == b.velocity_y + (GRAVITY * V * dt) \div MsPerSec
        y1 == b.y + v1 * dt
        lo == 2 * y1 < BIRD_SIZE * U
        y2 == IF lo THEN (BIRD_SIZE * U) \div 2 ELSE y1
        v2 == IF lo THEN 0 ELSE v1
        hi == 2 * y2 > 2 * SCREEN_H * U - BIRD_SIZE * U
        y3 == IF hi THEN SCREEN_H * U - (BIRD_SIZE * U) \div 2 ELSE y2
        v3 == IF hi THEN 0 ELSE v2
    IN  [b EXCEPT !.y = y3, !.velocity_y = v3]

\* jump adding the impulse to the velocity
jump_Additive(b) == [b EXCEPT !.velocity_y = b.velocity_y + JUMP_STRENGTH * V]

\* Bird::jump
jump(b) == [b EXCEPT !.velocity_y = JUMP_STRENGTH * V]

\* isOnGround without the margin of one unit
isOnGround_NoMargin(b) == 2 * b.y <= BIRD_SIZE * U

\* Bird::isOnGround
isOnGround(b) == 2 * b.y <= BIRD_SIZE * U + 2 * GROUND_MARGIN * U

\* Pipe::Pipe(x, gap_y)
NewPipe(px, gap_y) ==
    [x |-> px, gap_center_y |-> gap_y, scored |-> FALSE, active |-> TRUE]

\* Pipe::update(dt)
PipeUpdate(p, dt) ==
    LET x1 == p.x - PIPE_SPEED * V * dt
    IN  [p EXCEPT !.x = x1,
                  !.active = IF 2 * x1 < -1 * PIPE_WIDTH * U THEN FALSE ELSE p.active]

\* checkCollision testing the top of the gap only
checkCollision_TopOnly(p, b) ==
    IF \/ 2 * b.x + BIRD_SIZE * U < 2 * p.x - PIPE_WIDTH * U
       \/ 2 * b.x - BIRD_SIZE * U > 2 * p.x + PIPE_WIDTH * U
    THEN FALSE
    ELSE 2 * b.y + BIRD_SIZE * U > 2 * p.gap_center_y + GAP_SIZE * U

\* Pipe::checkCollision(bird)
checkCollision(p, b) ==
    IF \/ 2 * b.x + BIRD_SIZE * U < 2 * p.x - PIPE_WIDTH * U
       \/ 2 * b.x - BIRD_SIZE * U > 2 * p.x + PIPE_WIDTH * U
    THEN FALSE
    ELSE LET gap_top    == 2 * p.gap_center_y + GAP_SIZE * U
             gap_bottom == 2 * p.gap_center_y - GAP_SIZE * U
         IN  \/ 2 * b.y + BIRD_SIZE * U > gap_top
             \/ 2 * b.y - BIRD_SIZE * U < gap_bottom

\* the geometry of isPastBird alone: the pipe's right edge is left of the
\* bird's left edge
FullyPast(p, b) == 2 * p.x + PIPE_WIDTH * U < 2 * b.x - BIRD_SIZE * U

\* isPastBird not looking at the scored flag
isPastBird_Rescoring(p, b) ==
    2 * p.x + PIPE_WIDTH * U < 2 * b.x - BIRD_SIZE * U

\* Pipe::isPastBird(bird)
isPastBird(p, b) ==
    ~p.scored /\ 2 * p.x + PIPE_WIDTH * U < 2 * b.x - BIRD_SIZE * U

\* the pipe loop of FlappyBirdGame::checkCollisions from pipe k on;
\* acc = [pipes, score, hit], hit being the index of the colliding pipe that
\* ended the loop (0 while none)
RECURSIVE PipeLoop(_, _, _)
PipeLoop(k, b, acc) ==
    IF k > Len(acc.pipes) THEN acc
    ELSE IF checkCollision(acc.pipes[k], b) THEN [acc EXCEPT !.hit = k]
    ELSE IF isPastBird(acc.pipes[k], b)
         THEN PipeLoop(k + 1, b, [acc EXCEPT !.pipes[k].scored = TRUE,
                                             !.score = acc.score + 1])
         ELSE PipeLoop(k + 1, b, acc)

\* checkCollisions testing the pipes for collision only, scoring none
fbCheckCollisions_NoScoring(g) ==
    LET hits == {k \in DOMAIN g.pipes_ : checkCollision(g.pipes_[k], g.bird_)}
    IN  IF hits # {}
        THEN [g |-> [g EXCEPT !.state_ = GameOver],
              hit |-> CHOOSE k \in hits : \A j \in hits : k <= j]
        ELSE IF isOnGround(g.bird_) \/ 2 * g.bird_.y >= 2 * SCREEN_H * U - BIRD_SIZE * U
             THEN [g |-> [g EXCEPT !.state_ = GameOver], hit |-> 0]
             ELSE [g |-> g, hit |-> 0]

\* checkCollisions counting the pipe that collides as passed
fbCheckCollisions_ScoresHit(g) ==
    LET r == PipeLoop(1, g.bird_, [pipes |-> g.pipes_, score |-> g.score_, hit |-> 0])
        g1 == [g EXCEPT !.pipes_ = r.pipes, !.score_ = r.score]
    IN  IF r.hit # 0
        THEN [g |-> [g1 EXCEPT !.state_ = GameOver,
                               !.pipes_[r.hit].scored = TRUE,
                               !.score_ = r.score + 1],
              hit |-> r.hit]
        ELSE IF isOnGround(g.bird_) \/ 2 * g.bird_.y >= 2 * SCREEN_H * U - BIRD_SIZE * U
             THEN [g |-> [g1 EXCEPT !.state_ = GameOver], hit |-> 0]
             ELSE [g |-> g1, hit |-> 0]

\* checkCollisions without the test against the ceiling
fbCheckCollisions_NoCeiling(g) ==
    LET r == PipeLoop(1, g.bird_, [pipes |-> g.pipes_, score |-> g.score_, hit |-> 0])
        g1 == [g EXCEPT !.pipes_ = r.pipes, !.score_ = r.score]
    IN  IF r.hit # 0 THEN [g |-> [g1 EXCEPT !.state_ = GameOver], hit |-> r.hit]
        ELSE IF isOnGround(g.bird_)
             THEN [g |-> [g1 EXCEPT !.state_ = GameOver], hit |-> 0]
             ELSE [g |-> g1, hit |-> 0]

\* FlappyBirdGame::checkCollisions
fbCheckCollisions(g) ==
    LET r == PipeLoop(1, g.bird_, [pipes |-> g.pipes_, score |-> g.score_, hit |-> 0])
        g1 == [g EXCEPT !.pipes_ = r.pipes, !.score_ = r.score]
    IN  IF r.hit # 0 THEN [g |-> [g1 EXCEPT !.state_ = GameOver], hit |-> r.hit]
        ELSE IF isOnGround(g.bird_) \/ 2 * g.bird_.y >= 2 * SCREEN_H * U - BIRD_SIZE * U
             THEN [g |-> [g1 EXCEPT !.state_ = GameOver], hit |-> 0]
             ELSE [g |-> g1, hit |-> 0]

\* FlappyBirdGame::cleanupPipes
cleanupPipes(g) == [g EXCEPT !.pipes_ = SelectSeq(g.pipes_, IsActive)]

\* FlappyBirdGame::spawnPipe, gap_y = gap_dist_(gen_)
spawnPipe(g, gap_y) ==
    [g EXCEPT !.pipes_ = Append(g.pipes_, NewPipe(PIPE_SPAWN_X * U, gap_y))]

\* reset leaving state_ as it is
FBReset_KeepState(g) ==
    [state_ |-> g.state_, score_ |-> 0, pipe_spawn_timer_ |-> 0,
     bird_ |-> NewBird, pipes_ |-> <<>>]

\* FlappyBirdGame::reset
FBReset(g) ==
    [state_ |-> Playing, score_ |-> 0, pipe_spawn_timer_ |-> 0,
     bird_ |-> NewBird, pipes_ |-> <<>>]

\* the members of a FlappyBirdGame before its constructor body runs
FBMembers ==
    [state_ |-> Playing, score_ |-> 0, pipe_spawn_timer_ |-> 0,
     bird_ |-> [x |-> 0, y |-> 0, velocity_y |-> 0], pipes_ |-> <<>>]

\* the object as the Playing branch hands it to checkCollisions(): after
\* the jump, the bird's update, the spawn timer and the pipes' updates
FBMoved(g, dt, shoot, gap_y) ==
    LET b1 == IF shoot THEN jump(g.bird_) ELSE g.bird_
        b2 == BirdUpdate(b1, dt)
        t1 == g.pipe_spawn_timer_ + dt
        spawn == t1 > PIPE_SPAWN_TIME
        g1 == [g EXCEPT !.bird_ = b2, !.pipe_spawn_timer_ = IF spawn THEN 0 ELSE t1]
        g2 == IF spawn THEN spawnPipe(g1, gap_y) ELSE g1
    IN  [g2 EXCEPT !.pipes_ = [k \in DOMAIN g2.pipes_ |->
                                  PipeUpdate(g2.pipes_[k], dt)]]

\* the Playing branch spawning a pipe as soon as the timer reaches 2.5 s
FBUpdatePlaying_SpawnAtLimit(g, dt, shoot, gap_y) ==
    LET b1 == IF shoot THEN jump(g.bird_) ELSE g.bird_
        b2 == BirdUpdate(b1, dt)
        t1 == g.pipe_spawn_timer_ + dt
        spawn == t1 >= PIPE_SPAWN_TIME
        g1 == [g EXCEPT !.bird_ = b2, !.pipe_spawn_timer_ = IF spawn THEN 0 ELSE t1]
        g2 == IF spawn THEN spawnPipe(g1, gap_y) ELSE g1
        g3 == [g2 EXCEPT !.pipes_ = [k \in DOMAIN g2.pipes_ |->
                                        PipeUpdate(g2.pipes_[k], dt)]]
        c  == fbCheckCollisions(g3)
        newly == {k \in DOMAIN g3.pipes_ :
                     FullyPast(g3.pipes_[k], b2) /\ ~FullyPast(g2.pipes_[k], b2)}
    IN  [g |-> cleanupPipes(c.g), jumped |-> shoot, spawned |-> spawn,
         hit |-> c.hit, did_reset |-> FALSE, newly |-> Cardinality(newly),
         hit_scored |-> c.hit # 0 /\ c.g.pipes_[c.hit].scored
                                 /\ ~g3.pipes_[c.hit].scored]

\* the Playing branch leaving the timer running after it has spawned a pipe
FBUpdatePlaying_KeepTimer(g, dt, shoot, gap_y) ==
    LET b1 == IF shoot THEN jump(g.bird_) ELSE g.bird_
        b2 == BirdUpdate(b1, dt)
        t1 == g.pipe_spawn_timer_ + dt
        spawn == t1 > PIPE_SPAWN_TIME
        g1 == [g EXCEPT !.bird_ = b2, !.pipe_spawn_timer_ = t1]
        g2 == IF spawn THEN spawnPipe(g1, gap_y) ELSE g1
        g3 == [g2 EXCEPT !.pipes_ = [k \in DOMAIN g2.pipes_ |->
                                        PipeUpdate(g2.pipes_[k], dt)]]
        c  == fbCheckCollisions(g3)
        newly == {k \in DOMAIN g3.pipes_ :
                     FullyPast(g3.pipes_[k], b2) /\ ~FullyPast(g2.pipes_[k], b2)}
    IN  [g |-> cleanupPipes(c.g), jumped |-> shoot, spawned |-> spawn,
         hit |-> c.hit, did_reset |-> FALSE, newly |-> Cardinality(newly),
         hit_scored |-> c.hit # 0 /\ c.g.pipes_[c.hit].scored
                                 /\ ~g3.pipes_[c.hit].scored]

\* the Playing branch of FlappyBirdGame::update(dt, input),
\* shoot = input.isShootJustPressed(), gap_y = the value the generator
\* yields if a pipe is spawned.  Returns the new object and the events of
\* the frame.
FBUpdatePlaying(g, dt, shoot, gap_y) ==
    LET b1 == IF shoot THEN jump(g.bird_) ELSE g.bird_
        b2 == BirdUpdate(b1, dt)
        t1 == g.pipe_spawn_timer_ + dt
        spawn == t1 > PIPE_SPAWN_TIME
        g1 == [g EXCEPT !.bird_ = b2, !.pipe_spawn_timer_ = IF spawn THEN 0 ELSE t1]
        g2 == IF spawn THEN spawnPipe(g1, gap_y) ELSE g1
        g3 == [g2 EXCEPT !.pipes_ = [k \in DOMAIN g2.pipes_ |->
                                        PipeUpdate(g2.pipes_[k], dt)]]
        c  == fbCheckCollisions(g3)
        newly == {k \in DOMAIN g3.pipes_ :
                     FullyPast(g3.pipes_[k], b2) /\ ~FullyPast(g2.pipes_[k], b2)}
    IN  [g |-> cleanupPipes(c.g), jumped |-> shoot, spawned |-> spawn,
         hit |-> c.hit, did_reset |-> FALSE, newly |-> Cardinality(newly),
         hit_scored |-> c.hit # 0 /\ c.g.pipes_[c.hit].scored
                                 /\ ~g3.pipes_[c.hit].scored]

FBIdle(g) ==
    [g |-> g, jumped |-> FALSE, spawned |-> FALSE, hit |-> 0, did_reset |-> FALSE,
     newly |-> 0, hit_scored |-> FALSE]

\* update restarting a finished game without looking at the input
FBUpdate_RestartAlways(g, dt, shoot, gap_y) ==
    IF g.state_ = Playing THEN FBUpdatePlaying(g, dt, shoot, gap_y)
    ELSE IF g.state_ = GameOver
         THEN [FBIdle(FBReset(g)) EXCEPT !.did_reset = TRUE]
         ELSE FBIdle(g)

\* FlappyBirdGame::update(dt, input)
FBUpdate(g, dt, shoot, gap_y) ==
    IF g.state_ = Playing THEN FBUpdatePlaying(g, dt, shoot, gap_y)
    ELSE IF g.state_ = GameOver /\ shoot
         THEN [FBIdle(FBReset(g)) EXCEPT !.did_reset = TRUE]
         ELSE FBIdle(g)

\* SpaceInvadersGame::getState, FlappyBirdGame::getState
SIgetState(g) == g.state_
FBgetState(g) == g.state_

\* ------------------------------------------------------- the driver
\* Inputs the behaviours draw from.  update(dt, input) accepts any dt; the
\* sets hold a frame within GameManager::run's clamp (25 ms), frames that
\* make the 0.2 s cooldown run out exactly (25, 50), and one frame longer
\* than the invader tick.
SIDt == {25, 50, 1050}
AxisSet == {-1, 0, 1}
FBDt == {25, 100, 250}
GapSet == {GAP_MIN * U, ((GAP_MIN + GAP_MAX) \div 2) * U, GAP_MAX * U}

MaxFramesSI == 2
MaxFramesFB == 4

\* history kept next to the objects: the last call, its inputs and events;
\* since = ms of update time since the last bullet spawn, counted up to the
\* cooldown (-1: no bullet yet); reset_since = reset() was called since then;
\* newly = pipes whose right edge went left of the bird in the call, passed =
\* the same counted since the last reset(); spawn_since = ms of Playing
\* update time since the last pipe spawn, counted up to just past the spawn
\* time (-1: no pipe yet)
NoCall ==
    [op |-> "init", dt |-> 0, axis |-> 0, shoot |-> FALSE, was |-> Playing,
     fired |-> FALSE, hits |-> {}, wave |-> FALSE, tick |-> NoTick,
     jumped |-> FALSE, spawned |-> FALSE, hit |-> 0, did_reset |-> FALSE,
     since |-> -1, reset_since |-> FALSE, newly |-> 0, passed |-> 0,
     spawn_since |-> -1, hit_scored |-> FALSE]

SpawnSince(h, dt, was, spawn) ==
    IF spawn THEN 0
    ELSE IF h.spawn_since = -1 THEN -1
    ELSE IF was # Playing THEN h.spawn_since
    ELSE Min(h.spawn_since + dt, PIPE_SPAWN_TIME + 1)

Since(h, dt, fire) ==
    IF fire THEN 0
    ELSE IF h.since = -1 THEN -1
    ELSE Min(h.since + dt, FIRE_COOLDOWN)

\* what the driver keeps next to the InputManager: the last call, the shoot
\* control as read by the last update() and by the one before (released
\* before the first), the number of updates in a row that read it pressed
\* (counted up to MaxHeld), isShootJustPressed() before the last update(),
\* and the last value of getHorizontalAxis()
MaxHeld == 3

NewInput(has_controller) ==
    [im |-> NewInputManager(has_controller), op |-> "init",
     pressed |-> FALSE, pressed_before |-> FALSE, held |-> 0,
     just_before |-> FALSE, axis |-> 0, stick |-> 0]

\* no Rectangle pair looked at
NoRect ==
    [a |-> [x |-> 0, y |-> 0, w |-> 0, h |-> 0],
     b |-> [x |-> 0, y |-> 0, w |-> 0, h |-> 0],
     applied |-> FALSE, ab |-> FALSE, ba |-> FALSE]

\* ------------------------------------------------- GameManager (main.cpp)
\* SDL_GetTicks() returns a Uint32 count of milliseconds: readings, and their
\* differences, are taken modulo 2^32.  A Uint32 is kept as its two 16-bit
\* halves, hi * 65536 + lo.  delta_time is kept in thirds of a millisecond,
\* the unit in which the limit of 1/30 s is the whole number 100.
HALF == 65536
T == 3
MAX_DELTA == 100

U32(hi, lo) == [hi |-> hi, lo |-> lo]

\* a - b in unsigned 32-bit arithmetic
Sub32(a, b) ==
    [hi |-> (a.hi - b.hi - (IF a.lo < b.lo THEN 1 ELSE 0)) % HALF,
     lo |-> (a.lo - b.lo) % HALF]

\* a + b in unsigned 32-bit arithmetic
Add32(a, b) ==
    [hi |-> (a.hi + b.hi + ((a.lo + b.lo) \div HALF)) % HALF,
     lo |-> (a.lo + b.lo) % HALF]

\* current_time - last_time
ElapsedTicks(last_time, current_time) == Sub32(current_time, last_time)

\* (the difference unlimited; beyond 16 bits it is shown as 65536 ms)
DeltaTime_Unclamped(last_time, current_time) ==
    LET e == ElapsedTicks(last_time, current_time)
    IN  IF e.hi = 0 THEN T * e.lo ELSE T * HALF

\* the delta_time run() passes on: the elapsed time, at most 1/30 s
DeltaTime(last_time, current_time) ==
    LET e == ElapsedTicks(last_time, current_time)
    IN  IF e.hi = 0 THEN Min(T * e.lo, MAX_DELTA) ELSE MAX_DELTA

\* AppState
Menu == "Menu"
InGame == "InGame"
Quitting == "Quitting"

\* games_.size() after setupGames: 0 is Space Invaders, 1 is Flappy Bird;
\* the menu holds one item a game and "Quit"
NUM_GAMES == 2
NUM_ITEMS == NUM_GAMES + 1

\* InputManager::isUpPressed, isDownPressed, isEscapePressed
isUpPressed(im, up, w, dpad_up) == up \/ w \/ (im.controller_ /\ dpad_up)
isDownPressed(im, down, s, dpad_down) == down \/ s \/ (im.controller_ /\ dpad_down)
isEscapePressed(im, escape, button_y) == escape \/ (im.controller_ /\ button_y)

\* MainMenu as constructed and filled by setupMenu
NewMainMenu == [selected_index_ |-> 0, prev_up_ |-> FALSE, prev_down_ |-> FALSE]

\* MainMenu::update moving the selection for as long as up or down is held
MenuUpdate_Repeat(m, up_pressed, down_pressed, shoot_just_pressed) ==
    LET s1 == IF up_pressed
              THEN (IF m.selected_index_ = 0 THEN NUM_ITEMS - 1
                                             ELSE m.selected_index_ - 1)
              ELSE m.selected_index_
        s2 == IF down_pressed THEN (s1 + 1) % NUM_ITEMS ELSE s1
    IN  [menu |-> [selected_index_ |-> s2, prev_up_ |-> up_pressed,
                   prev_down_ |-> down_pressed],
         activated |-> IF shoot_just_pressed THEN s2 ELSE -1]

\* MainMenu::update(input): the menu it leaves and the index of the item
\* whose action it ran (-1: none)
MenuUpdate(m, up_pressed, down_pressed, shoot_just_pressed) ==
    LET s1 == IF up_pressed /\ ~m.prev_up_
              THEN (IF m.selected_index_ = 0 THEN NUM_ITEMS - 1
                                             ELSE m.selected_index_ - 1)
              ELSE m.selected_index_
        s2 == IF down_pressed /\ ~m.prev_down_ THEN (s1 + 1) % NUM_ITEMS ELSE s1
    IN  [menu |-> [selected_index_ |-> s2, prev_up_ |-> up_pressed,
                   prev_down_ |-> down_pressed],
         activated |-> IF shoot_just_pressed THEN s2 ELSE -1]

\* what a frame did: the menu item activated (-1: none), the one activated
\* in the frame before, the game whose update() was called (-1: none), the
\* isShootJustPressed() that update saw and what the game did with it;
\* whether an SDL_QUIT event was polled, app_state_ and escape_was_pressed_
\* as the frame found them, whether MainMenu::update ran, and whether the
\* game an item activated was in its reset state already
NoFrame ==
    [activated |-> -1, activated_before |-> -1, updated |-> -1, shoot |-> FALSE,
     fired |-> FALSE, jumped |-> FALSE, did_reset |-> FALSE,
     quit |-> FALSE, app_before |-> "Menu", escape_before |-> FALSE,
     menu_updated |-> FALSE, was_fresh |-> TRUE]

\* the GameManager before run() has read the clock
NewGameManager ==
    [running_ |-> TRUE,
     last_time |-> U32(0, 0), current_time |-> U32(0, 0), delta_time |-> 0,
     read_before |-> U32(0, 0), elapsed |-> U32(0, 0), ticked |-> FALSE,
     app_state_ |-> Menu, current_game_index_ |-> 0,
     escape_was_pressed_ |-> FALSE,
     input_ |-> NewInputManager(FALSE),
     main_menu_ |-> NewMainMenu,
     call |-> NoFrame]

\* handleEvents changing the state on every sample that finds escape pressed
handleEvents_NoLatch(g, quit, space, up, escape) ==
    LET a1 == IF quit THEN Quitting ELSE g.app_state_
        im == InputUpdate(g.input_, space, up, FALSE, FALSE)
        pressed == isEscapePressed(im, escape, FALSE)
        a2 == IF pressed
              THEN (IF a1 = InGame THEN Menu
                    ELSE IF a1 = Menu THEN Quitting
                    ELSE a1)
              ELSE a1
    IN  [g EXCEPT !.app_state_ = a2, !.input_ = im, !.escape_was_pressed_ = pressed,
                  !.call.quit = quit]

\* GameManager::handleEvents: quit = an SDL_QUIT event was polled; space, up
\* and escape are the keys as input_ reads them
handleEvents(g, quit, space, up, escape) ==
    LET a1 == IF quit THEN Quitting ELSE g.app_state_
        im == InputUpdate(g.input_, space, up, FALSE, FALSE)
        pressed == isEscapePressed(im, escape, FALSE)
        a2 == IF pressed /\ ~g.escape_was_pressed_
              THEN (IF a1 = InGame THEN Menu
                    ELSE IF a1 = Menu THEN Quitting
                    ELSE a1)
              ELSE a1
    IN  [g EXCEPT !.app_state_ = a2, !.input_ = im, !.escape_was_pressed_ = pressed,
                  !.call.quit = quit]

\* the InGame branch of GameManager::update: games_[i]->update(dt, *input_)
GameUpdate(g, sg, fg, dt, gap_y) ==
    LET shoot == isShootJustPressed(g.input_)
        axis == getHorizontalAxis(g.input_, FALSE, FALSE, FALSE, FALSE, 0) \div AXIS_FULL
        rs == SIUpdate(sg, dt, axis, shoot)
        rf == FBUpdate(fg, dt, shoot, gap_y)
    IN  IF g.current_game_index_ = 0
        THEN [gm |-> [g EXCEPT !.call.updated = 0, !.call.shoot = shoot,
                               !.call.fired = rs.fired],
              si |-> rs.g, fb |-> fg]
        ELSE IF g.current_game_index_ = 1
        THEN [gm |-> [g EXCEPT !.call.updated = 1, !.call.shoot = shoot,
                               !.call.jumped = rf.jumped,
                               !.call.did_reset = rf.did_reset],
              si |-> sg, fb |-> rf.g]
        ELSE [gm |-> g, si |-> sg, fb |-> fg]

\* the Menu branch with items that enter a game without calling its reset()
MenuFrame_NoReset(g, sg, fg, up, down) ==
    LET m == MenuUpdate(g.main_menu_, isUpPressed(g.input_, up, FALSE, FALSE),
                        isDownPressed(g.input_, down, FALSE, FALSE),
                        isShootJustPressed(g.input_))
        a == m.activated
        g1 == [g EXCEPT !.main_menu_ = m.menu, !.call.activated = a,
                        !.call.menu_updated = TRUE]
    IN  IF a >= 0 /\ a < NUM_GAMES
        THEN [gm |-> [g1 EXCEPT !.current_game_index_ = a, !.app_state_ = InGame,
                                !.call.was_fresh = IF a = 0 THEN sg = SIReset(sg)
                                                            ELSE fg = FBReset(fg)],
              si |-> sg, fb |-> fg]
        ELSE IF a = NUM_GAMES
        THEN [gm |-> [g1 EXCEPT !.app_state_ = Quitting], si |-> sg, fb |-> fg]
        ELSE [gm |-> g1, si |-> sg, fb |-> fg]

\* the Menu branch of GameManager::update: main_menu_->update(*input_) and
\* the action of the activated item, as setupMenu made it
MenuFrame(g, sg, fg, up, down) ==
    LET m == MenuUpdate(g.main_menu_, isUpPressed(g.input_, up, FALSE, FALSE),
                        isDownPressed(g.input_, down, FALSE, FALSE),
                        isShootJustPressed(g.input_))
        a == m.activated
        g1 == [g EXCEPT !.main_menu_ = m.menu, !.call.activated = a,
                        !.call.menu_updated = TRUE]
    IN  IF a >= 0 /\ a < NUM_GAMES
        THEN [gm |-> [g1 EXCEPT !.current_game_index_ = a, !.app_state_ = InGame,
                                !.call.was_fresh = IF a = 0 THEN sg = SIReset(sg)
                                                            ELSE fg = FBReset(fg)],
              si |-> IF a = 0 THEN SIReset(sg) ELSE sg,
              fb |-> IF a = 1 THEN FBReset(fg) ELSE fg]
        ELSE IF a = NUM_GAMES
        THEN [gm |-> [g1 EXCEPT !.app_state_ = Quitting], si |-> sg, fb |-> fg]
        ELSE [gm |-> g1, si |-> sg, fb |-> fg]

\* update leaving running_ alone when the application is Quitting
GMUpdate_KeepRunning(g, sg, fg, dt, up, down, gap_y) ==
    IF g.app_state_ = Menu THEN MenuFrame(g, sg, fg, up, down)
    ELSE IF g.app_state_ = InGame THEN GameUpdate(g, sg, fg, dt, gap_y)
    ELSE [gm |-> g, si |-> sg, fb |-> fg]

\* update running the selected game in the frame that activated it
GMUpdate_FallThrough(g, sg, fg, dt, up, down, gap_y) ==
    IF g.app_state_ = Menu
    THEN LET r == MenuFrame(g, sg, fg, up, down)
         IN  IF r.gm.app_state_ = InGame THEN GameUpdate(r.gm, r.si, r.fb, dt, gap_y)
             ELSE r
    ELSE IF g.app_state_ = InGame THEN GameUpdate(g, sg, fg, dt, gap_y)
    ELSE [gm |-> [g EXCEPT !.running_ = FALSE], si |-> sg, fb |-> fg]

\* GameManager::update(dt)
GMUpdate(g, sg, fg, dt, up, down, gap_y) ==
    IF g.app_state_ = Menu THEN MenuFrame(g, sg, fg, up, down)
    ELSE IF g.app_state_ = InGame THEN GameUpdate(g, sg, fg, dt, gap_y)
    ELSE [gm |-> [g EXCEPT !.running_ = FALSE], si |-> sg, fb |-> fg]

\* ------------------------------------------------- FontManager (renderer)
\* A TTF_Font is known by the file it was opened from and its point size;
\* NullFont is the null pointer.  Scales are kept in tenths.
FONT_PATHS ==
    <<"/usr/share/fonts/truetype/dejavu/DejaVuSans-Bold.ttf",
      "/usr/share/fonts/TTF/DejaVuSans-Bold.ttf",
      "/System/Library/Fonts/Arial.ttf",
      "/Windows/Fonts/arial.ttf",
      "/usr/share/fonts/truetype/liberation/LiberationSans-Bold.ttf">>
DEFAULT_FONT_SIZE == 24
MIN_FONT_SIZE == 8
MAX_FONT_SIZE == 128
SCALE_UNIT == 10

NullFont == [path |-> "", size |-> 0]
NoFonts == [k \in {} |-> NullFont]

\* TTF_OpenFont(path, size) where the files in avail can be opened
TTF_OpenFont(path, size, avail) ==
    IF path \in avail THEN [path |-> path, size |-> size] ELSE NullFont

\* the loop over font_paths from path k on: the first font that opens
RECURSIVE OpenFirst(_, _, _)
OpenFirst(k, size, avail) ==
    IF k > Len(FONT_PATHS) THEN NullFont
    ELSE LET f == TTF_OpenFont(FONT_PATHS[k], size, avail)
         IN  IF f # NullFont THEN f ELSE OpenFirst(k + 1, size, avail)

\* fonts_[key] = font
PutFont(fonts, key, font) ==
    [k \in DOMAIN fonts \cup {key} |-> IF k = key THEN font ELSE fonts[k]]

\* FontManager::FontManager, ttf_ok = TTF_Init() succeeded
NewFontManager(ttf_ok, avail) ==
    LET d == IF ttf_ok THEN OpenFirst(1, DEFAULT_FONT_SIZE, avail) ELSE NullFont
    IN  [ttf_initialized_ |-> ttf_ok,
         default_font_ |-> d,
         fonts_ |-> IF d # NullFont THEN PutFont(NoFonts, "default", d) ELSE NoFonts]

\* FontManager::loadFont(name, path, size)
loadFont(fm, name, path, size, avail) ==
    IF ~fm.ttf_initialized_ THEN fm
    ELSE LET font == TTF_OpenFont(path, size, avail)
         IN  IF font = NullFont THEN fm
             ELSE [fm EXCEPT !.fonts_ = PutFont(fm.fonts_, name, font)]

\* getFont returning null for a name that is not in fonts_
getFont_NullIfAbsent(fm, name) ==
    IF name \in DOMAIN fm.fonts_ THEN fm.fonts_[name] ELSE NullFont

\* FontManager::getFont(name)
getFont(fm, name) ==
    IF name \in DOMAIN fm.fonts_ THEN fm.fonts_[name] ELSE fm.default_font_

\* target_size of renderText and getTextWidth: int(24 * scale) within [8, 128]
TargetSize(scale) ==
    Max(MIN_FONT_SIZE, Min((DEFAULT_FONT_SIZE * scale) \div SCALE_UNIT, MAX_FONT_SIZE))

\* font_name + "_" + std::to_string(target_size)
SizedFontKey(font_name, target_size) == font_name \o "_" \o ToString(target_size)

\* FontManager::renderText(text, x, y, scale, color, font_name) as far as the
\* fonts go: the FontManager it leaves, the font the text was rendered with
\* (NullFont: nothing was rendered) and whether a font was opened
renderText(fm, text_empty, scale, font_name, avail) ==
    LET font == getFont(fm, font_name)
        target_size == TargetSize(scale)
        sized_font_key == SizedFontKey(font_name, target_size)
        sized_font == getFont(fm, sized_font_key)
        opened == OpenFirst(1, target_size, avail)
    IN  IF font = NullFont \/ text_empty
        THEN [fm |-> fm, used |-> NullFont, opened |-> FALSE]
        ELSE IF sized_font # NullFont
        THEN [fm |-> fm, used |-> sized_font, opened |-> FALSE]
        ELSE IF opened # NullFont
        THEN [fm |-> [fm EXCEPT !.fonts_ = PutFont(fm.fonts_, sized_font_key, opened)],
              used |-> opened, opened |-> TRUE]
        ELSE [fm |-> fm, used |-> font, opened |-> FALSE]

\* FontManager::getTextWidth(text, scale, font_name): the font it measures
\* with (NullFont: it returns 0) and whether the width is taken unscaled
getTextWidth(fm, text_empty, scale, font_name) ==
    LET sized_font_key == SizedFontKey(font_name, TargetSize(scale))
    IN  IF ~fm.ttf_initialized_ \/ text_empty
        THEN [font |-> NullFont, is_sized_font |-> FALSE]
        ELSE IF sized_font_key \in DOMAIN fm.fonts_
        THEN [font |-> fm.fonts_[sized_font_key], is_sized_font |-> TRUE]
        ELSE [font |-> IF font_name \in DOMAIN fm.fonts_ THEN fm.fonts_[font_name]
                                                         ELSE fm.default_font_,
              is_sized_font |-> FALSE]

\* no call made yet
NoFontCall ==
    [op |-> "init", text_empty |-> FALSE, scale |-> 0, font_name |-> "",
     cached_before |-> FALSE, can_open |-> FALSE, had_font |-> FALSE,
     used |-> NullFont, opened |-> FALSE, is_sized_font |-> FALSE]

NoFontManager == [obj |-> NewFontManager(FALSE, {}), call |-> NoFontCall]

\* the objects as constructed (both constructors call reset())
Constructed ==
    /\ si = SIReset(SIMembers)
    /\ fb = FBReset(FBMembers)
    /\ frames = 0
    /\ last = NoCall
    /\ input = NewInput(FALSE)
    /\ rect = NoRect
    /\ gm = NewGameManager
    /\ fmgr = NoFontManager

Frame25 == [NoCall EXCEPT !.op = "update", !.dt = 25]

\* Space Invaders, 1206 frames into ReplayShooter: one invader left, the
\* fifth bullet a frame away from it, 75 ms of cooldown left
SeedLastInvader ==
    [si |-> [state_ |-> Playing, score_ |-> 490, invader_move_timer_ |-> 425,
             invader_direction_ |-> 1,
             player_ |-> [x |-> 5400000, y |-> 500000, vx |-> 0, fire_cooldown |-> 75],
             bullets_ |-> [k \in 1..9 |->
                 [x |-> <<6350000, 5950000, 5550000, 5150000, 5050000,
                          5100000, 5100000, 5350000, 5400000>>[k],
                  y |-> 5850000 - (k - 1) * 600000,
                  active |-> TRUE, is_player_bullet |-> TRUE]],
             invaders_ |-> <<[x |-> 5010000, y |-> 3600000, vx |-> 200, active |-> TRUE]>>],
     last |-> [Frame25 EXCEPT !.since = 125]]

\* Space Invaders, 7584 frames into ReplayIdle: the whole formation has
\* dropped 30 times, its next tick reverses it at the right edge
SeedLanding ==
    [si |-> [state_ |-> Playing, score_ |-> 0, invader_move_timer_ |-> 1000,
             invader_direction_ |-> 1,
             player_ |-> NewPlayer(SCREEN_W),
             bullets_ |-> <<>>,
             invaders_ |-> [k \in 1..(ROWS * COLS) |->
                 [createInvaders[k] EXCEPT !.x = @ + 1820000, !.y = @ - 3000000]]],
     last |-> Frame25]

\* Flappy Bird, 897 frames into ReplayFlap: the bird falling through the
\* gap of the pipe it overlaps
SeedInGap ==
    [fb |-> [state_ |-> Playing, score_ |-> 6, pipe_spawn_timer_ |-> 2225,
             bird_ |-> [x |-> 1000000, y |-> 2545000, velocity_y |-> -3300],
             pipes_ |-> <<[x |-> 1337500, gap_center_y |-> 3000000,
                           scored |-> FALSE, active |-> TRUE],
                          [x |-> 5125000, gap_center_y |-> 3000000,
                           scored |-> FALSE, active |-> TRUE]>>],
     last |-> [Frame25 EXCEPT !.passed = 6, !.spawn_since = 2225]]

\* Flappy Bird, 334 frames into ReplayFlap: the first pipe, scored, about to
\* leave the screen on the left
SeedPipeLeaving ==
    [fb |-> [state_ |-> Playing, score_ |-> 1, pipe_spawn_timer_ |-> 775,
             bird_ |-> [x |-> 1000000, y |-> 3257500, velocity_y |-> 500],
             pipes_ |-> <<[x |-> -275000, gap_center_y |-> 3000000,
                           scored |-> TRUE, active |-> TRUE],
                          [x |-> 3512500, gap_center_y |-> 3000000,
                           scored |-> FALSE, active |-> TRUE],
                          [x |-> 7300000, gap_center_y |-> 3000000,
                           scored |-> FALSE, active |-> TRUE]>>],
     last |-> [Frame25 EXCEPT !.passed = 1, !.spawn_since = 775]]

\* Space Invaders, 2008 frames into ReplayLate: the first wave was cleared
\* while the formation was moving left (invader_direction_ = -1), the second
\* wave, created moving right, has its right column a tick away from x = 780
SeedRegenerated ==
    [si |-> [state_ |-> Playing, score_ |-> 500, invader_move_timer_ |-> 1000,
             invader_direction_ |-> -1,
             player_ |-> [x |-> 2900000, y |-> 500000, vx |-> 0, fire_cooldown |-> 0],
             bullets_ |-> <<>>,
             invaders_ |-> [k \in 1..(ROWS * COLS) |->
                 [createInvaders[k] EXCEPT !.x = @ + 1820000]]],
     last |-> [Frame25 EXCEPT !.since = 200]]

\* Space Invaders, 1803 frames into ReplayLate: one invader left, moving
\* left (invader_direction_ = -1), the sixth bullet a frame away from it and
\* the formation's tick due
SeedLastInvaderLeft ==
    [si |-> [state_ |-> Playing, score_ |-> 490, invader_move_timer_ |-> 1000,
             invader_direction_ |-> -1,
             player_ |-> [x |-> 7600000, y |-> 500000, vx |-> 0, fire_cooldown |-> 50],
             bullets_ |-> [k \in 1..9 |->
                 [x |-> <<7900000, 7900000, 7900000, 7900000, 7800000,
                          7750000, 7700000, 7650000, 7650000>>[k],
                  y |-> 5925000 - (k - 1) * 600000,
                  active |-> TRUE, is_player_bullet |-> TRUE]],
             invaders_ |-> <<[x |-> 7935000, y |-> 3100000, vx |-> -200, active |-> TRUE]>>],
     last |-> [Frame25 EXCEPT !.since = 150]]

SISeeds == {SeedLastInvader, SeedLanding, SeedRegenerated, SeedLastInvaderLeft}
\* Flappy Bird, 35 frames into ReplayClimb: the bird rising, under ten units
\* from its ceiling clamp, before the first pipe
SeedNearCeiling ==
    [fb |-> [state_ |-> Playing, score_ |-> 0, pipe_spawn_timer_ |-> 875,
             bird_ |-> [x |-> 1000000, y |-> 5802500, velocity_y |-> 3300],
             pipes_ |-> <<>>],
     last |-> [Frame25 EXCEPT !.shoot = TRUE, !.jumped = TRUE]]

\* Flappy Bird, 55 frames into ReplayHop: the bird falling at 730 units/s,
\* 19.5 units above its floor clamp, before the first pipe
SeedAboveFloor ==
    [fb |-> [state_ |-> Playing, score_ |-> 0, pipe_spawn_timer_ |-> 1375,
             bird_ |-> [x |-> 1000000, y |-> 295000, velocity_y |-> -7300],
             pipes_ |-> <<>>],
     last |-> Frame25]

FBSeeds == {SeedInGap, SeedPipeLeaving, SeedNearCeiling, SeedAboveFloor}

\* The states a behaviour starts from: a game as constructed, or a game in
\* one of the states above, each reached from construction by update()
\* calls alone (the replays below reach them).
InitSI ==
    /\ game = "si"
    /\ fb = FBReset(FBMembers)
    /\ frames = 0
    /\ input = NewInput(FALSE)
    /\ rect = NoRect
    /\ gm = NewGameManager
    /\ fmgr = NoFontManager
    /\ \/ si = SIReset(SIMembers) /\ last = NoCall
       \/ \E s \in SISeeds : si = s.si /\ last = s.last

InitFB ==
    /\ game = "fb"
    /\ si = SIReset(SIMembers)
    /\ frames = 0
    /\ input = NewInput(FALSE)
    /\ rect = NoRect
    /\ gm = NewGameManager
    /\ fmgr = NoFontManager
    /\ \/ fb = FBReset(FBMembers) /\ last = NoCall
       \/ \E s \in FBSeeds : fb = s.fb /\ last = s.last

Init == InitSI \/ InitFB

\* games_[i]->update(dt, *input_) on the Space Invaders object
SIUpdateCall(dt, axis, shoot) ==
    LET r == SIUpdate(si, dt, axis, shoot)
    IN  /\ si' = r.g
        /\ last' = [NoCall EXCEPT !.op = "update", !.dt = dt, !.axis = axis,
                        !.shoot = shoot, !.was = si.state_, !.fired = r.fired,
                        !.hits = r.hits, !.wave = r.wave, !.tick = r.tick,
                        !.since = Since(last, dt, r.fired),
                        !.reset_since = IF r.fired THEN FALSE ELSE last.reset_since]
        /\ frames' = frames + 1
        /\ UNCHANGED <<game, fb, input, rect, gm, fmgr>>

SIUpdateAction ==
    /\ game = "si"
    /\ frames < MaxFramesSI
    /\ \E dt \in SIDt, axis \in AxisSet, shoot \in BOOLEAN : SIUpdateCall(dt, axis, shoot)

\* games_[i]->reset() on the Space Invaders object
SIResetAction ==
    /\ game = "si"
    /\ si' = SIReset(si)
    /\ last' = [NoCall EXCEPT !.op = "reset", !.was = si.state_,
                    !.since = last.since, !.reset_since = TRUE]
    /\ UNCHANGED <<game, fb, frames, input, rect, gm, fmgr>>

\* games_[i]->update(dt, *input_) on the Flappy Bird object
FBUpdateCall(dt, shoot, gap_y) ==
    LET r == FBUpdate(fb, dt, shoot, gap_y)
    IN  /\ fb' = r.g
        /\ last' = [NoCall EXCEPT !.op = "update", !.dt = dt, !.shoot = shoot,
                        !.was = fb.state_, !.jumped = r.jumped,
                        !.spawned = r.spawned, !.hit = r.hit,
                        !.did_reset = r.did_reset, !.newly = r.newly,
                        !.hit_scored = r.hit_scored,
                        !.passed = IF r.did_reset THEN 0 ELSE last.passed + r.newly,
                        !.spawn_since = SpawnSince(last, dt, fb.state_, r.spawned)]
        /\ frames' = frames + 1
        /\ UNCHANGED <<game, si, input, rect, gm, fmgr>>

FBUpdateAction ==
    /\ game = "fb"
    /\ frames < MaxFramesFB
    /\ \E dt \in FBDt, shoot \in BOOLEAN, gap_y \in GapSet : FBUpdateCall(dt, shoot, gap_y)

\* games_[i]->reset() on the Flappy Bird object
FBResetAction ==
    /\ game = "fb"
    /\ fb' = FBReset(fb)
    /\ last' = [NoCall EXCEPT !.op = "reset", !.was = fb.state_,
                    !.spawn_since = last.spawn_since]
    /\ UNCHANGED <<game, si, frames, input, rect, gm, fmgr>>

Next == SIUpdateAction \/ SIResetAction \/ FBUpdateAction \/ FBResetAction

Spec == Init /\ [][Next]_vars

\* one game at a time
NextSI == SIUpdateAction \/ SIResetAction
SpecSI == InitSI /\ [][NextSI]_vars

NextFB == FBUpdateAction \/ FBResetAction
SpecFB == InitFB /\ [][NextFB]_vars

\* Flappy Bird with the loop of GameManager::run going on: while the frame
\* budget lasts, an update is eventually made.  FBUpdateAction is the one
\* action that counts a frame and it accepts every input, so a step of it
\* is a step of NextFB that counts a frame.
FBFrameDue == game = "fb" /\ frames < MaxFramesFB /\ frames' = frames + 1
SpecFBFair == InitFB /\ [][NextFB]_vars /\ WF_frames(FBFrameDue)

\* ------------------------------------------------ the input manager
\* Stick readings the behaviours draw from: the ends of the Sint16 range,
\* both sides of the dead zone, and the centre.
StickSet ==
    {STICK_MIN, STICK_MIN + 1, -1 * STICK_DEADZONE - 1, -1 * STICK_DEADZONE, 0,
     STICK_DEADZONE, STICK_DEADZONE + 1, STICK_MAX}

InitInput ==
    /\ game = "input"
    /\ si = SIReset(SIMembers)
    /\ fb = FBReset(FBMembers)
    /\ frames = 0
    /\ last = NoCall
    /\ \E c \in BOOLEAN : input = NewInput(c)
    /\ rect = NoRect
    /\ gm = NewGameManager
    /\ fmgr = NoFontManager

\* input_->update() at the head of a frame (GameManager::handleEvents)
InputUpdateAction ==
    /\ game = "input"
    /\ \E space, up, ret, button_a \in BOOLEAN :
          LET control == space \/ up \/ ret \/ (input.im.controller_ /\ button_a)
          IN  input' = [input EXCEPT
                  !.im = InputUpdate(input.im, space, up, ret, button_a),
                  !.op = "update",
                  !.pressed = control,
                  !.pressed_before = input.pressed,
                  !.held = IF control THEN Min(input.held + 1, MaxHeld) ELSE 0,
                  !.just_before = isShootJustPressed(input.im)]
    /\ UNCHANGED <<game, si, fb, frames, last, rect, gm, fmgr>>

\* a call of getHorizontalAxis() with the keys and the stick as they are
InputAxisAction ==
    /\ game = "input"
    /\ \E left, a, right, d \in BOOLEAN, c \in StickSet :
          input' = [input EXCEPT
              !.op = "axis",
              !.axis = getHorizontalAxis(input.im, left, a, right, d, c),
              !.stick = c]
    /\ UNCHANGED <<game, si, fb, frames, last, rect, gm, fmgr>>

NextInput == InputUpdateAction \/ InputAxisAction
SpecInput == InitInput /\ [][NextInput]_vars

\* ------------------------------------------------------- the frame clock
\* Tick readings the behaviours draw from: around zero, around the limit of
\* 1/30 s (33 and 34 ms), a second, a long stall, and the top of the counter.
TickSet ==
    {U32(0, 0), U32(0, 1), U32(0, 16), U32(0, 33), U32(0, 34), U32(0, 35),
     U32(0, 1000), U32(0, 60000), U32(1, 0), U32(1, 16), U32(32768, 0),
     U32(65535, 0), U32(65535, 65535 - 59999), U32(65535, 65536 - 35),
     U32(65535, 65536 - 34), U32(65535, 65536 - 33), U32(65535, 65536 - 16),
     U32(65535, 65535)}

\* run() reads the clock once before the loop
InitClock ==
    /\ game = "clock"
    /\ si = SIReset(SIMembers)
    /\ fb = FBReset(FBMembers)
    /\ frames = 0
    /\ last = NoCall
    /\ input = NewInput(FALSE)
    /\ rect = NoRect
    /\ \E t \in TickSet : gm = [NewGameManager EXCEPT !.last_time = t]
    /\ fmgr = NoFontManager

\* the head of one iteration of the loop: read the clock, take the
\* difference, remember the reading, limit the difference
RunTickAction ==
    /\ game = "clock"
    /\ gm.running_
    /\ \E current_time \in TickSet :
          gm' = [gm EXCEPT
              !.current_time = current_time,
              !.delta_time = DeltaTime(gm.last_time, current_time),
              !.last_time = current_time,
              !.read_before = gm.last_time,
              !.elapsed = ElapsedTicks(gm.last_time, current_time),
              !.ticked = TRUE]
    /\ UNCHANGED <<game, si, fb, frames, last, input, rect, fmgr>>

NextClock == RunTickAction
SpecClock == InitClock /\ [][NextClock]_vars

\* ------------------------------------------------------- the frames
\* Frames of GameManager::run past the clock: handleEvents() and update(dt),
\* with dt a whole number of milliseconds within the limit of 1/30 s, the
\* keys space, up, down and escape, and no controller.
GMDt == {16, 33}
\* The gap centre a pipe spawned in a frame would get.  The frames of a
\* behaviour add up to less than the two seconds between pipes, so none is
\* spawned and one centre stands for all.
GMGapSet == {((GAP_MIN + GAP_MAX) \div 2) * U}
MaxFramesGM == 5

\* The application 28 frames into ReplayFall: in Flappy Bird, the bird on
\* the ground, the game over.
SeedCrashed ==
    [gm |-> [NewGameManager EXCEPT
                 !.app_state_ = InGame, !.current_game_index_ = 1,
                 !.main_menu_ = [selected_index_ |-> 1, prev_up_ |-> FALSE,
                                 prev_down_ |-> FALSE],
                 !.call = [NoFrame EXCEPT !.updated = 1, !.app_before = InGame]],
     fb |-> [state_ |-> GameOver, score_ |-> 0, pipe_spawn_timer_ |-> 858,
             bird_ |-> [x |-> 1000000, y |-> 100000, velocity_y |-> 0],
             pipes_ |-> <<>>]]

\* The application as constructed, or as the replay below leaves it.
InitGM ==
    /\ game = "gm"
    /\ \/ Constructed
       \/ /\ gm = SeedCrashed.gm
          /\ fb = SeedCrashed.fb
          /\ si = SIReset(SIMembers)
          /\ frames = 0
          /\ last = NoCall
          /\ input = NewInput(FALSE)
          /\ rect = NoRect
          /\ fmgr = NoFontManager

\* The body of the loop of run(): handleEvents(), then update(delta_time),
\* for the events and keys the iteration finds.
GMFrame(quit, space, up, down, escape, dt, gap_y) ==
    LET g0 == [gm EXCEPT !.call = [NoFrame EXCEPT
                                     !.activated_before = gm.call.activated,
                                     !.app_before = gm.app_state_,
                                     !.escape_before = gm.escape_was_pressed_]]
        g1 == handleEvents(g0, quit, space, up, escape)
        r  == GMUpdate(g1, si, fb, dt, up, down, gap_y)
    IN  /\ gm' = r.gm
        /\ si' = r.si
        /\ fb' = r.fb
        /\ frames' = frames + 1
        /\ UNCHANGED <<game, last, input, rect, fmgr>>

\* One iteration of the loop.  The frame budget counts the iterations that
\* find the application in the menu or in a game; the iteration that finds
\* it Quitting is always made.
GMFrameAction ==
    /\ game = "gm"
    /\ gm.running_
    /\ frames < MaxFramesGM \/ gm.app_state_ = Quitting
    /\ \E quit, space, up, down, escape \in BOOLEAN, dt \in GMDt, gap_y \in GMGapSet :
          GMFrame(quit, space, up, down, escape, dt, gap_y)

NextGM == GMFrameAction
SpecGM == InitGM /\ [][NextGM]_vars

\* The loop of run() goes on while running_ holds: an iteration that is due
\* is eventually made.  GMFrameAction accepts every input, so it is enabled
\* exactly when GMFrameDue is.
GMFrameDue ==
    /\ game = "gm"
    /\ gm.running_
    /\ frames < MaxFramesGM \/ gm.app_state_ = Quitting
    /\ frames' = frames + 1
SpecGMFair == InitGM /\ [][NextGM]_vars /\ WF_frames(GMFrameDue)

\* ------------------------------------------------------- the fonts
\* Scales (in tenths) with target sizes 8 (clamped), 36 and 128 (clamped);
\* the font files that can be opened when a call is made (none, or the second
\* system font and the title font); the names text is drawn with ("title"
\* is loaded by loadFont).
ScaleSet == {1, 15, 60}
CUSTOM_PATH == "assets/title.ttf"
AvailSet == {{}, {FONT_PATHS[2], CUSTOM_PATH}}
FontNames == {"default", "title"}

InitFont ==
    /\ game = "font"
    /\ si = SIReset(SIMembers)
    /\ fb = FBReset(FBMembers)
    /\ frames = 0
    /\ last = NoCall
    /\ input = NewInput(FALSE)
    /\ rect = NoRect
    /\ gm = NewGameManager
    /\ \E ttf_ok \in BOOLEAN, avail \in AvailSet :
          fmgr = [obj |-> NewFontManager(ttf_ok, avail), call |-> NoFontCall]

\* loadFont("title", path, 24)
FontLoadAction ==
    /\ game = "font"
    /\ \E avail \in AvailSet :
          fmgr' = [obj |-> loadFont(fmgr.obj, "title", CUSTOM_PATH, DEFAULT_FONT_SIZE, avail),
                   call |-> [NoFontCall EXCEPT !.op = "load"]]
    /\ UNCHANGED <<game, si, fb, frames, last, input, rect, gm>>

\* renderText(text, x, y, scale, color, font_name)
FontRenderAction ==
    /\ game = "font"
    /\ \E text_empty \in BOOLEAN, scale \in ScaleSet, font_name \in FontNames,
          avail \in AvailSet :
          LET r == renderText(fmgr.obj, text_empty, scale, font_name, avail)
          IN  fmgr' = [obj |-> r.fm,
                       call |-> [NoFontCall EXCEPT
                           !.op = "render", !.text_empty = text_empty,
                           !.scale = scale, !.font_name = font_name,
                           !.cached_before =
                               SizedFontKey(font_name, TargetSize(scale))
                                   \in DOMAIN fmgr.obj.fonts_,
                           !.can_open = OpenFirst(1, TargetSize(scale), avail) # NullFont,
                           !.had_font = getFont(fmgr.obj, font_name) # NullFont,
                           !.used = r.used, !.opened = r.opened]]
    /\ UNCHANGED <<game, si, fb, frames, last, input, rect, gm>>

\* getTextWidth(text, scale, font_name)
FontWidthAction ==
    /\ game = "font"
    /\ \E text_empty \in BOOLEAN, scale \in ScaleSet, font_name \in FontNames :
          LET r == getTextWidth(fmgr.obj, text_empty, scale, font_name)
          IN  fmgr' = [obj |-> fmgr.obj,
                       call |-> [NoFontCall EXCEPT
                           !.op = "width", !.text_empty = text_empty,
                           !.scale = scale, !.font_name = font_name,
                           !.cached_before =
                               SizedFontKey(font_name, TargetSize(scale))
                                   \in DOMAIN fmgr.obj.fonts_,
                           !.used = r.font, !.is_sized_font = r.is_sized_font]]
    /\ UNCHANGED <<game, si, fb, frames, last, input, rect, gm>>

NextFont == FontLoadAction \/ FontRenderAction \/ FontWidthAction
SpecFont == InitFont /\ [][NextFont]_vars

\* ----------------------------------------------------- rectangles
\* Rectangles the behaviours draw from: centres on a grid, sizes from 0 up,
\* so that pairs overlap, touch along an edge or at a corner, and lie apart.
RectMaxCoord == 2
RectMaxSize == 2

RectSet ==
    [x : 0..RectMaxCoord, y : 0..RectMaxCoord, w : 0..RectMaxSize, h : 0..RectMaxSize]

InitRect ==
    /\ game = "rect"
    /\ si = SIReset(SIMembers)
    /\ fb = FBReset(FBMembers)
    /\ frames = 0
    /\ last = NoCall
    /\ input = NewInput(FALSE)
    /\ \E a, b \in RectSet : rect = [NoRect EXCEPT !.a = a, !.b = b]
    /\ gm = NewGameManager
    /\ fmgr = NoFontManager

\* a.intersects(b) and b.intersects(a) on the pair
RectIntersectsAction ==
    /\ game = "rect"
    /\ ~rect.applied
    /\ rect' = [rect EXCEPT !.applied = TRUE,
                            !.ab = RectIntersects(rect.a, rect.b),
                            !.ba = RectIntersects(rect.b, rect.a)]
    /\ UNCHANGED <<game, si, fb, frames, last, input, gm, fmgr>>

NextRect == RectIntersectsAction
SpecRect == InitRect /\ [][NextRect]_vars

\* ------------------------------------------------------------ replays
\* Deterministic plays from the constructed game, at 25 ms a frame, used to
\* find states deep in a game.  Every behaviour of a replay is a behaviour
\* of the game under update() alone.
ReplayMaxFrames == 40000

Sign(n) == IF n > 0 THEN 1 ELSE IF n < 0 THEN -1 ELSE 0

\* the player steers under where the first invader of the collection will be
\* when a bullet gets there (the formation makes about 40 units a second),
\* and presses shoot on every frame the cooldown has run out (one in eight)
ReplayAim ==
    LET t == si.invaders_[1]
        travel == (t.y - si.player_.y) \div (BULLET_SPEED * V)
    IN  t.x + 2 * t.vx * travel

ReplayAxis ==
    IF si.state_ # Playing THEN 0
    ELSE LET d == ReplayAim - si.player_.x
         IN  IF d > 2 * U \/ d < -2 * U THEN Sign(d) ELSE 0

ReplayShooterNext ==
    /\ game = "si"
    /\ frames < ReplayMaxFrames
    /\ SIUpdateCall(25, ReplayAxis, si.player_.fire_cooldown <= 25)

ReplayInit == Constructed /\ game = "si"

SpecReplayShooter == ReplayInit /\ [][ReplayShooterNext]_vars

\* the player never moves or fires
ReplayIdleNext ==
    /\ game = "si"
    /\ frames < ReplayMaxFrames
    /\ SIUpdateCall(25, 0, FALSE)

SpecReplayIdle == ReplayInit /\ [][ReplayIdleNext]_vars

\* the player of ReplayShooter, starting to fire after 300 frames and ceasing
\* to fire when the first wave is cleared
ReplayLateNext ==
    /\ game = "si"
    /\ frames < ReplayMaxFrames
    /\ SIUpdateCall(25, ReplayAxis,
                    /\ frames >= 300
                    /\ si.score_ < ROWS * COLS * HIT_SCORE
                    /\ si.player_.fire_cooldown <= 25)

SpecReplayLate == ReplayInit /\ [][ReplayLateNext]_vars

\* the bird flaps whenever it has sunk under y = 260 and shoot was not
\* pressed on the frame before; every gap is centred at 300
ReplayFlapNext ==
    /\ game = "fb"
    /\ frames < ReplayMaxFrames
    /\ FBUpdateCall(25, fb.bird_.y < 260 * U /\ ~last.shoot, 300 * U)

SpecReplayFlap == (Constructed /\ game = "fb") /\ [][ReplayFlapNext]_vars

\* the bird flaps on every other frame
ReplayClimbNext ==
    /\ game = "fb"
    /\ frames < ReplayMaxFrames
    /\ FBUpdateCall(25, ~last.shoot, 300 * U)

SpecReplayClimb == (Constructed /\ game = "fb") /\ [][ReplayClimbNext]_vars

\* the bird flaps once, on the second frame, and falls
ReplayHopNext ==
    /\ game = "fb"
    /\ frames < ReplayMaxFrames
    /\ FBUpdateCall(25, frames = 1, 300 * U)

SpecReplayHop == (Constructed /\ game = "fb") /\ [][ReplayHopNext]_vars

\* The application started, down pressed in the first frame, space in the
\* second (the Flappy Bird item), then frames of 33 ms with no key down:
\* the bird falls to the ground.
ReplayFallNext ==
    /\ game = "gm"
    /\ gm.running_
    /\ frames < ReplayMaxFrames
    /\ GMFrame(FALSE, frames = 1, FALSE, frames = 0, FALSE, 33, 300 * U)

SpecReplayFall == (Constructed /\ game = "gm") /\ [][ReplayFallNext]_vars

\* Space Invaders after reset() with a player who never moves or fires and
\* a loop that keeps calling update: every behaviour has one frame time
\* (kept in last.dt from the start), and while the frame budget lasts the
\* update that is due is eventually made.  IdleUpdateAction is the one
\* action that counts a frame, so a step of it is a step of IdleFrameDue.
IdleDt == {25, 33}
MaxIdleFrames == 8000

InitIdle ==
    /\ game = "si"
    /\ fb = FBReset(FBMembers)
    /\ frames = 0
    /\ input = NewInput(FALSE)
    /\ rect = NoRect
    /\ gm = NewGameManager
    /\ fmgr = NoFontManager
    /\ si = SIReset(SIMembers)
    /\ \E dt \in IdleDt : last = [NoCall EXCEPT !.op = "reset", !.dt = dt]

IdleUpdateAction ==
    /\ game = "si"
    /\ frames < MaxIdleFrames
    /\ SIUpdateCall(last.dt, 0, FALSE)

IdleFrameDue ==
    /\ game = "si"
    /\ frames < MaxIdleFrames
    /\ frames' = frames + 1

NextIdle == IdleUpdateAction
SpecIdleFair == InitIdle /\ [][NextIdle]_vars /\ WF_frames(IdleFrameDue)

\* Each seed is a state of its replay: TLC finds these violated.
SeedLastInvaderUnreached == ~(si = SeedLastInvader.si /\ last = SeedLastInvader.last)
SeedLandingUnreached == ~(si = SeedLanding.si /\ last = SeedLanding.last)
SeedRegeneratedUnreached == ~(si = SeedRegenerated.si /\ last = SeedRegenerated.last)
SeedLastInvaderLeftUnreached ==
    ~(si = SeedLastInvaderLeft.si /\ last = SeedLastInvaderLeft.last)
SeedCrashedUnreached == ~(gm = SeedCrashed.gm /\ fb = SeedCrashed.fb)
SeedAboveFloorUnreached == ~(fb = SeedAboveFloor.fb /\ last = SeedAboveFloor.last)
SeedInGapUnreached == ~(fb = SeedInGap.fb /\ last = SeedInGap.last)
SeedNearCeilingUnreached == ~(fb = SeedNearCeiling.fb /\ last = SeedNearCeiling.last)
SeedPipeLeavingUnreached == ~(fb = SeedPipeLeaving.fb /\ last = SeedPipeLeaving.last)

\* =================================================================
\* Properties
\* =================================================================
SIUpdated == game = "si" /\ last.op = "update"
FBUpdated == game = "fb" /\ last.op = "update"
Card(S) == Cardinality(S)

\* the start state of each game, written out
CanonicalSI ==
    [state_ |-> Playing, score_ |-> 0, invader_move_timer_ |-> 0,
     invader_direction_ |-> 1,
     player_ |-> [x |-> 400 * U, y |-> 50 * U, vx |-> 0, fire_cooldown |-> 0],
     bullets_ |-> <<>>,
     invaders_ |-> [k \in 1..50 |->
         [x |-> (50 + 60 * ((k - 1) % 10)) * U, y |-> (500 - 30 * ((k - 1) \div 10)) * U,
          vx |-> 20 * V, active |-> TRUE]]]

CanonicalFB ==
    [state_ |-> Playing, score_ |-> 0, pipe_spawn_timer_ |-> 0,
     bird_ |-> [x |-> 100 * U, y |-> 300 * U, velocity_y |-> 0], pipes_ |-> <<>>]

\* C1: every entity held in a game's collections (bullets, invaders, pipes)
\* is active whenever an update() or reset() has returned.
C1_HeldEntitiesActive ==
    /\ \A k \in DOMAIN si.bullets_ : si.bullets_[k].active
    /\ \A k \in DOMAIN si.invaders_ : si.invaders_[k].active
    /\ \A k \in DOMAIN fb.pipes_ : fb.pipes_[k].active

\* an update in which a bullet hit an invader has returned: the nine bullets
\* of the frame before are eight
C1_Witness ==
    /\ SIUpdated /\ last.hits # {}
    /\ Len(si.bullets_) = 8

\* C2: reset() in any reachable state gives the start state of the game, so
\* a second reset() changes nothing.
C2_ResetCanonical ==
    /\ SIReset(si) = CanonicalSI
    /\ FBReset(fb) = CanonicalFB
    /\ SIReset(SIReset(si)) = SIReset(si)
    /\ FBReset(FBReset(fb)) = FBReset(fb)
    /\ last.op = "reset" => IF game = "si" THEN si = CanonicalSI ELSE fb = CanonicalFB

\* reset() has just been called on a Space Invaders game that was over
C2_Witness ==
    /\ game = "si" /\ last.op = "reset" /\ last.was = GameOver
    /\ si = CanonicalSI

\* bullets of the frame that Bullet::update puts off the screen
OffScreen(bs, dt) ==
    {k \in DOMAIN bs : bs[k].y + 300 * V * dt < 0 \/ bs[k].y + 300 * V * dt > 600 * U}

\* C3: in one Space Invaders update no bullet hits two invaders, no invader
\* is hit by two bullets, the score grows by 10 a hit, and each hit takes
\* one invader and one bullet out of the collections.
C3_OneBulletOneInvader ==
    [][(game = "si" /\ last'.op = "update" /\ si.state_ = Playing) =>
        LET h == last'.hits
            n == Card(h)
            spawned == IF last'.fired THEN 1 ELSE 0
        IN  /\ \A p, q \in h : p # q => (p[1] # q[1] /\ p[2] # q[2])
            /\ si'.score_ = si.score_ + 10 * n
            /\ n <= Len(si.invaders_)
            /\ Len(si'.invaders_) = IF n = Len(si.invaders_) THEN 50
                                    ELSE Len(si.invaders_) - n
            /\ Len(si'.bullets_) =
                   Len(si.bullets_) + spawned - n - Card(OffScreen(si.bullets_, last'.dt))
      ]_vars

\* a hit has happened: the score went from 490 to 500
C3_Witness ==
    /\ SIUpdated /\ Card(last.hits) = 1
    /\ si.score_ = 500

\* the grid of a new wave: 50 active invaders at (50+60*col, 500-30*row)
IsNewWave(invs) ==
    /\ Len(invs) = 50
    /\ \A k \in DOMAIN invs : invs[k].active
    /\ {<<invs[k].x, invs[k].y>> : k \in DOMAIN invs}
         = {<<(50 + 60 * col) * U, (500 - 30 * row) * U>> : col \in 0..9, row \in 0..4}

\* C4: an update whose collision pass leaves no invader active (every invader
\* of the frame was hit) ends with exactly the 50 invaders of a new wave.
C4_WaveRegenerated ==
    [][(game = "si" /\ last'.op = "update" /\ si.state_ = Playing
          /\ (last'.wave \/ Card(last'.hits) = Len(si.invaders_)))
        => (last'.wave /\ IsNewWave(si'.invaders_))
      ]_vars

\* the last invader has been destroyed and the new wave stands
C4_Witness ==
    /\ SIUpdated /\ last.wave /\ last.hits # {}
    /\ Len(si.invaders_) = 50 /\ si.score_ = 500

\* C5 as claimed: whenever an update spawns a bullet after an earlier one,
\* at least 0.2 s of update time lie between the two.
C5_AsClaimed ==
    [][(game = "si" /\ last'.op = "update" /\ last'.fired /\ last.since # -1)
        => last.since + last'.dt >= 200
      ]_vars

\* C5: between two bullet spawns with no reset() between them lie at least
\* 0.2 s of update time; an update spawns at most one bullet; a shoot press
\* in a Playing update whose cooldown, after the frame's decrement, is 0
\* spawns a bullet and sets the cooldown to 0.2 s.
C5_FireCooldown ==
    [][(game = "si" /\ last'.op = "update") =>
        LET cd == IF si.player_.fire_cooldown - last'.dt > 0
                  THEN si.player_.fire_cooldown - last'.dt ELSE 0
        IN  /\ (last'.fired /\ last.since # -1 /\ ~last.reset_since)
                 => last.since + last'.dt >= 200
            /\ Len(si'.bullets_) <= Len(si.bullets_) + 1
            /\ last'.fired => (si.state_ = Playing /\ last'.shoot)
            /\ (si.state_ = Playing /\ last'.shoot /\ cd = 0)
                 => (last'.fired /\ si'.player_.fire_cooldown = 200)
            /\ (si.state_ = Playing /\ ~last'.fired)
                 => si'.player_.fire_cooldown = cd
      ]_vars

\* a second bullet has been spawned exactly 0.2 s after the one before: the
\* cooldown had just reached 0
C5_Witness ==
    /\ SIUpdated /\ last.fired /\ last.dt = 25 /\ ~last.reset_since
    /\ si.player_.fire_cooldown = 200
    /\ Len(si.bullets_) >= 2
    /\ si.bullets_[Len(si.bullets_)].y - si.bullets_[Len(si.bullets_) - 1].y = -60 * U

BirdTop(b) == 2 * b.y + 20 * U
BirdBottom(b) == 2 * b.y - 20 * U
HOverlap(p, b) ==
    /\ 2 * b.x + 20 * U >= 2 * p.x - 60 * U
    /\ 2 * b.x - 20 * U <= 2 * p.x + 60 * U
OutsideGap(p, b) ==
    \/ BirdTop(b) > 2 * (p.gap_center_y + 75 * U)
    \/ BirdBottom(b) < 2 * (p.gap_center_y - 75 * U)

\* C6: a pipe that overlaps the bird horizontally collides exactly when the
\* bird's top is above gap_center+75 or its bottom below gap_center-75; and
\* a Playing update after which some pipe collides ends in GameOver.
C6_GapCollision ==
    /\ \A k \in DOMAIN fb.pipes_ :
          HOverlap(fb.pipes_[k], fb.bird_) =>
              (checkCollision(fb.pipes_[k], fb.bird_) <=> OutsideGap(fb.pipes_[k], fb.bird_))
    /\ (FBUpdated /\ last.was = Playing) =>
          ((\E k \in DOMAIN fb.pipes_ :
               HOverlap(fb.pipes_[k], fb.bird_) /\ OutsideGap(fb.pipes_[k], fb.bird_))
           => fb.state_ = GameOver)

\* the bird has sunk under the gap of the pipe it overlaps, far above the
\* ground, and the game is over
C6_Witness ==
    /\ FBUpdated /\ last.was = Playing /\ last.hit # 0
    /\ fb.state_ = GameOver
    /\ fb.bird_.y > 100 * U
    /\ \E k \in DOMAIN fb.pipes_ :
          /\ HOverlap(fb.pipes_[k], fb.bird_)
          /\ BirdBottom(fb.bird_) < 2 * (fb.pipes_[k].gap_center_y - 75 * U)

\* the bird after Bird::update from velocity v0 (tenths of a unit a second)
\* and height y0, written out: gravity first, then position, then the clamps
Integrated(y0, v0, dt) ==
    LET v1 == v0 - 8 * dt
        y1 == y0 + v1 * dt
    IN  IF y1 < 10 * U THEN [y |-> 10 * U, velocity_y |-> 0, clamped |-> TRUE]
        ELSE IF y1 > 590 * U THEN [y |-> 590 * U, velocity_y |-> 0, clamped |-> TRUE]
        ELSE [y |-> y1, velocity_y |-> v1, clamped |-> FALSE]

\* C7: a Playing Flappy Bird update with shoot pressed integrates the bird
\* from velocity +350 whatever its velocity was (one impulse); without shoot
\* it integrates from the velocity the bird had.
C7_JumpImpulse ==
    [][(game = "fb" /\ last'.op = "update" /\ fb.state_ = Playing) =>
        LET v0 == IF last'.shoot THEN 350 * V ELSE fb.bird_.velocity_y
            b  == Integrated(fb.bird_.y, v0, last'.dt)
        IN  /\ fb'.bird_.velocity_y = b.velocity_y
            /\ fb'.bird_.y = b.y
            /\ last'.jumped = last'.shoot
      ]_vars

\* the falling bird of the seed has jumped: 350 - 800 * 0.025 = 330
C7_Witness ==
    /\ FBUpdated /\ last.jumped /\ last.dt = 25 /\ frames = 1
    /\ fb.bird_.velocity_y = 330 * V
    /\ fb.score_ = 6

\* C8: without a jump and without a clamp the bird's velocity becomes
\* v - 800*dt and its height y + (v - 800*dt)*dt; from y = 300, v = 0 and
\* dt = 0.1 that is v = -80, y = 292.
C8_EulerGravityFirst ==
    [][(game = "fb" /\ last'.op = "update" /\ fb.state_ = Playing /\ ~last'.shoot) =>
        LET v1 == fb.bird_.velocity_y - 8 * last'.dt
            y1 == fb.bird_.y + v1 * last'.dt
        IN  /\ (y1 >= 10 * U /\ y1 <= 590 * U)
                 => (fb'.bird_.velocity_y = v1 /\ fb'.bird_.y = y1)
            /\ (fb.bird_.y = 300 * U /\ fb.bird_.velocity_y = 0 /\ last'.dt = 100)
                 => (fb'.bird_.velocity_y = -80 * V /\ fb'.bird_.y = 292 * U)
      ]_vars

\* the scenario: one update of 0.1 s without a jump on the constructed bird
C8_Witness ==
    /\ FBUpdated /\ ~last.shoot /\ last.dt = 100 /\ frames = 1
    /\ fb.pipe_spawn_timer_ = 100
    /\ fb.bird_ = [x |-> 100 * U, y |-> 292 * U, velocity_y |-> -80 * V]

\* C9: a Space Invaders update on a game that is not Playing changes
\* nothing, and only reset() takes the game from GameOver to Playing.
C9_NoUpdateAfterGameOver ==
    [][(game = "si" /\ si.state_ # Playing) =>
        /\ last'.op = "update" => si' = si
        /\ si'.state_ = Playing => last'.op = "reset"
      ]_vars

\* an update with shoot pressed and the axis pushed has run on a finished
\* game
C9_Witness ==
    /\ SIUpdated /\ last.was = GameOver /\ last.shoot /\ last.axis = 1
    /\ si.state_ = GameOver

\* C10: a Flappy Bird update in GameOver with shoot pressed leaves exactly
\* the reset game (no jump, no integration); without shoot it leaves the
\* game as it was.
C10_RestartOnShoot ==
    [][(game = "fb" /\ last'.op = "update" /\ fb.state_ = GameOver) =>
        /\ last'.shoot => (fb' = CanonicalFB /\ last'.did_reset /\ ~last'.jumped)
        /\ ~last'.shoot => fb' = fb
      ]_vars

\* the finished game has been restarted by a shoot press
C10_Witness ==
    /\ FBUpdated /\ last.was = GameOver /\ last.shoot /\ last.did_reset
    /\ fb = CanonicalFB

\* the formation tick of the last update reversed the formation
Reversed(t) == t.ticked /\ t.dir_after # t.dir_before

\* some active invader of the collection stands at or under y = 70
AtPlayerLine(invs) == \E k \in DOMAIN invs : invs[k].active /\ invs[k].y <= 70 * U

\* C11: an update whose direction-change drop leaves an active invader at
\* y <= 70 ends in GameOver; and whenever the game is Playing every invader
\* of the collection has y > 70.
C11_ReachedPlayerEndsGame ==
    /\ (SIUpdated /\ Reversed(last.tick) /\ AtPlayerLine(last.tick.after))
          => (last.tick.state_after = GameOver /\ si.state_ = GameOver)
    /\ si.state_ = Playing => \A k \in DOMAIN si.invaders_ : si.invaders_[k].y > 70 * U

\* the thirty-first drop has put the lowest row at exactly y = 70
C11_Witness ==
    /\ SIUpdated /\ last.was = Playing /\ Reversed(last.tick)
    /\ \E k \in DOMAIN last.tick.after : last.tick.after[k].y = 70 * U
    /\ \A k \in DOMAIN last.tick.before : last.tick.before[k].y > 70 * U
    /\ si.state_ = GameOver


\* some active invader of the collection is outside [20, 780]
PastEdge(invs) ==
    \E k \in DOMAIN invs :
        invs[k].active /\ (invs[k].x < 20 * U \/ invs[k].x > 780 * U)

\* C12 as claimed: a formation tick after which an active invader is outside
\* [20, 780] negates invader_direction_, gives every active invader the
\* velocity 20 * the new direction, of the sign opposite to the velocity it
\* had before the tick, and drops it by 10.
C12_AsClaimed ==
    (SIUpdated /\ last.tick.ticked /\ PastEdge(last.tick.after)) =>
        LET t == last.tick
        IN  /\ t.dir_after = -1 * t.dir_before
            /\ \A k \in DOMAIN t.after :
                  t.after[k].active =>
                      /\ t.after[k].vx = 20 * V * t.dir_after
                      /\ t.after[k].vx * t.before[k].vx < 0
                      /\ t.after[k].y = t.before[k].y - 10 * U

\* C13: a Playing Flappy Bird update that leaves the bird at its floor clamp
\* (y = 10) or at its ceiling clamp (y = 590) ends in GameOver.
C13_ClampEndsGame ==
    [][(game = "fb" /\ last'.op = "update" /\ fb.state_ = Playing) =>
        LET b == Integrated(fb.bird_.y,
                            IF last'.shoot THEN 350 * V ELSE fb.bird_.velocity_y,
                            last'.dt)
        IN  (b.y = 10 * U \/ b.y = 590 * U \/ fb'.bird_.y = 10 * U \/ fb'.bird_.y = 590 * U)
               => fb'.state_ = GameOver
      ]_vars

\* the rising bird has been stopped at the ceiling, no pipe near, and the
\* game is over
C13_Witness ==
    /\ FBUpdated /\ last.was = Playing /\ last.hit = 0
    /\ fb.bird_.y = 590 * U /\ fb.bird_.velocity_y = 0
    /\ fb.pipes_ = <<>>
    /\ fb.state_ = GameOver

\* C14: at every frame boundary the pipes of the collection whose right edge
\* is left of the bird's left edge are exactly the scored ones, and the score
\* is the number of pipes whose right edge has gone left of the bird since the
\* last reset(): each such pipe counted in the update in which that happened,
\* once.
C14_ScoredOnce ==
    /\ \A k \in DOMAIN fb.pipes_ :
          fb.pipes_[k].scored <=> 2 * fb.pipes_[k].x + 60 * U < 2 * fb.bird_.x - 20 * U
    /\ game = "fb" => fb.score_ = last.passed

\* the seventh pipe has just passed the bird and the game goes on
C14_Witness ==
    /\ FBUpdated /\ last.newly = 1 /\ fb.state_ = Playing
    /\ fb.score_ = 7
    /\ Len(fb.pipes_) >= 1 /\ fb.pipes_[1].scored

\* C15: a Playing Flappy Bird update adds dt to the spawn timer; exactly when
\* the sum exceeds 2.5 s it appends one pipe at x = 850 (moved by this
\* update like the others) with gap centre in [150, 450] and scored = false,
\* and sets the timer to 0.  An update spawns at most one pipe, two spawns
\* lie more than 2.5 s of Playing update time apart, and the timer is at
\* most 2.5 s after every call.
C15_SpawnTimer ==
    [][(game = "fb" /\ last'.op = "update" /\ fb.state_ = Playing) =>
        LET t1 == fb.pipe_spawn_timer_ + last'.dt
            n  == Len(fb'.pipes_)
        IN  /\ last'.spawned <=> t1 > 2500
            /\ last'.spawned =>
                  /\ fb'.pipe_spawn_timer_ = 0
                  /\ n >= 1
                  /\ fb'.pipes_[n].x = 850 * U - 150 * V * last'.dt
                  /\ fb'.pipes_[n].gap_center_y >= 150 * U
                  /\ fb'.pipes_[n].gap_center_y <= 450 * U
                  /\ ~fb'.pipes_[n].scored
                  /\ \A k \in 1..(n - 1) : fb'.pipes_[k].x < fb'.pipes_[n].x
                  /\ last.spawn_since # -1 => last.spawn_since + last'.dt > 2500
            /\ ~last'.spawned =>
                  (fb'.pipe_spawn_timer_ = t1 /\ n <= Len(fb.pipes_))
            /\ n <= Len(fb.pipes_) + 1
            /\ fb'.pipe_spawn_timer_ <= 2500
      ]_vars

\* a pipe has been spawned after an earlier one, by an update that found the
\* timer at exactly 2.5 s
C15_Witness ==
    /\ FBUpdated /\ last.spawned /\ last.dt = 25 /\ frames = 3
    /\ fb.pipe_spawn_timer_ = 0
    /\ fb.score_ >= 6
    /\ fb.pipes_[Len(fb.pipes_)].x = 850 * U - 150 * V * 25

\* C16: after every InputManager::update(), isShootJustPressed() is true
\* exactly if that update read the shoot control pressed and the update
\* before read it released; so it is true in the first frame of a press
\* only, and never in two frames in a row.
C16_JustPressedEdge ==
    (game = "input" /\ input.op # "init") =>
        /\ isShootJustPressed(input.im) <=> (input.pressed /\ ~input.pressed_before)
        /\ isShootJustPressed(input.im) <=> input.held = 1
        /\ ~(isShootJustPressed(input.im) /\ input.just_before)

\* the control has been held over three updates: the press was reported by
\* the first of them only
C16_Witness ==
    /\ game = "input" /\ input.op = "update"
    /\ input.held = 3 /\ input.pressed /\ input.pressed_before
    /\ ~isShootJustPressed(input.im)

\* C17 as claimed: every value getHorizontalAxis() returns, for every
\* combination of the keys and every stick reading of the Sint16 range, lies
\* in [-1, 1].
C17_AsClaimed ==
    (game = "input" /\ input.op = "axis") =>
        (input.axis >= -1 * 32767 /\ input.axis <= 32767)

\* C18: a.intersects(b) = b.intersects(a) for every pair of rectangles, and
\* so collidesWith gives the same for two entities either way round.
C18_IntersectsSymmetric ==
    (game = "rect" /\ rect.applied) =>
        /\ rect.ab = rect.ba
        /\ collidesWith(rect.a, rect.b) = collidesWith(rect.b, rect.a)
        /\ collidesWith(rect.a, rect.b) = rect.ab

\* two rectangles of different size, b to the right of a, overlapping in x
\* and apart in y: neither intersects the other
C18_Witness ==
    /\ game = "rect" /\ rect.applied
    /\ rect.a.w < rect.b.w /\ rect.a.x < rect.b.x
    /\ 2 * (rect.b.x - rect.a.x) < rect.a.w + rect.b.w
    /\ 2 * (rect.b.y - rect.a.y) > rect.a.h + rect.b.h
    /\ ~rect.ab /\ ~rect.ba

\* C19: intersects is true exactly if |a.x - b.x| <= (a.w + b.w)/2 and
\* |a.y - b.y| <= (a.h + b.h)/2; rectangles whose edges touch intersect.
C19_IntersectsIffNotSeparated ==
    (game = "rect" /\ rect.applied) =>
        (rect.ab <=>
            /\ 2 * Abs(rect.a.x - rect.b.x) <= rect.a.w + rect.b.w
            /\ 2 * Abs(rect.a.y - rect.b.y) <= rect.a.h + rect.b.h)

\* two rectangles that share an edge and nothing more intersect
C19_Witness ==
    /\ game = "rect" /\ rect.applied
    /\ rect.a.w > 0 /\ rect.b.w > 0 /\ rect.a.h > 0 /\ rect.b.h > 0
    /\ 2 * (rect.b.x - rect.a.x) = rect.a.w + rect.b.w
    /\ rect.a.y = rect.b.y
    /\ rect.ab

\* C20: getState() of either game is Playing or GameOver in every reachable
\* state (never Menu or Paused), and Playing when the game has just been
\* constructed or reset.
C20_PlayingOrGameOver ==
    /\ SIgetState(si) \in GameStates \ {"Menu", "Paused"}
    /\ FBgetState(fb) \in GameStates \ {"Menu", "Paused"}
    /\ SIgetState(SIReset(SIMembers)) = Playing
    /\ FBgetState(FBReset(FBMembers)) = Playing
    /\ (game = "si" /\ last.op \in {"init", "reset"}) => SIgetState(si) = Playing
    /\ (game = "fb" /\ last.op \in {"init", "reset"}) => FBgetState(fb) = Playing
    /\ (game = "fb" /\ last.did_reset) => FBgetState(fb) = Playing

\* reset() has been called on a Flappy Bird game that was over: it is
\* Playing again
C20_Witness ==
    /\ game = "fb" /\ last.op = "reset" /\ last.was = GameOver
    /\ FBgetState(fb) = Playing

\* C21: after every Space Invaders update() and reset() the player's x lies
\* in [10, 790] and its y is 50.
C21_PlayerOnScreen ==
    game = "si" =>
        /\ si.player_.x >= 10 * U
        /\ si.player_.x <= 790 * U
        /\ si.player_.y = 50 * U

\* the player, pushed right over two long frames (420 units from x = 400),
\* has been stopped at x = 790
C21_Witness ==
    /\ SIUpdated /\ last.was = Playing /\ last.axis = 1 /\ last.dt = 1050
    /\ frames = 2 /\ si.score_ = 0
    /\ si.player_.x = 790 * U

\* C22: after every Flappy Bird update() and reset() the bird's y lies in
\* [10, 590] and its x is 100; an update that clamps the bird (to 10 or to
\* 590) leaves its vertical velocity 0.
C22_BirdOnScreen ==
    [][game = "fb" =>
        /\ fb'.bird_.y >= 10 * U /\ fb'.bird_.y <= 590 * U
        /\ fb'.bird_.x = 100 * U
        /\ (last'.op = "update" /\ fb.state_ = Playing) =>
              LET b == Integrated(fb.bird_.y,
                                  IF last'.shoot THEN 350 * V ELSE fb.bird_.velocity_y,
                                  last'.dt)
              IN  b.clamped =>
                    /\ fb'.bird_.velocity_y = 0
                    /\ fb'.bird_.y \in {10 * U, 590 * U}
      ]_vars

\* the bird of the constructed game has fallen for three long frames and
\* lies on the floor, at rest
C22_Witness ==
    /\ FBUpdated /\ last.was = Playing /\ ~last.shoot /\ last.dt = 250
    /\ frames = 3 /\ fb.score_ = 0 /\ fb.pipe_spawn_timer_ = 750
    /\ fb.bird_ = [x |-> 100 * U, y |-> 10 * U, velocity_y |-> 0]

\* C23: the delta time run() hands to the frame's update lies between 0 and
\* 1/30 s (100 thirds of a millisecond) whatever the two tick readings are,
\* a long stall and a wrapped 32-bit counter included; it is the elapsed
\* time when that is at most 1/30 s and 1/30 s otherwise.
C23_DeltaTimeBounded ==
    (game = "clock" /\ gm.ticked) =>
        LET short == gm.elapsed.hi = 0 /\ T * gm.elapsed.lo <= MAX_DELTA
        IN  /\ Add32(gm.read_before, gm.elapsed) = gm.current_time
            /\ gm.delta_time >= 0
            /\ gm.delta_time <= MAX_DELTA
            /\ short => gm.delta_time = T * gm.elapsed.lo
            /\ ~short => gm.delta_time = MAX_DELTA

\* a reading after the counter wrapped: 16 ms before the top, then 16
C23_Witness ==
    /\ game = "clock" /\ gm.ticked
    /\ gm.read_before = U32(65535, 65536 - 16) /\ gm.current_time = U32(0, 16)
    /\ gm.delta_time = T * 32

\* a long stall: the counter went from 0 to half its range
C23_WitnessStall ==
    /\ game = "clock" /\ gm.ticked
    /\ gm.read_before = U32(0, 0) /\ gm.current_time = U32(32768, 0)
    /\ gm.delta_time = MAX_DELTA

\* a Playing update of the Flappy Bird object, made with the inputs the
\* history records
FBPlayingStep == game = "fb" /\ last'.op = "update" /\ fb.state_ = Playing

\* the last update found a pipe colliding and marked that same pipe scored
ScoresAndCollides ==
    /\ FBUpdated /\ last.was = Playing
    /\ last.hit # 0
    /\ last.hit_scored

RefCheckCollisions(g) ==
    LET b == g.bird_
        passed == {k \in DOMAIN g.pipes_ : isPastBird(g.pipes_[k], b)}
        collides == \E k \in DOMAIN g.pipes_ : checkCollision(g.pipes_[k], b)
        out == isOnGround(b) \/ 2 * b.y >= 2 * SCREEN_H * U - BIRD_SIZE * U
    IN  [g EXCEPT
            !.pipes_ = [k \in DOMAIN g.pipes_ |->
                           IF k \in passed THEN [g.pipes_[k] EXCEPT !.scored = TRUE]
                                           ELSE g.pipes_[k]],
            !.score_ = g.score_ + Cardinality(passed),
            !.state_ = IF collides \/ out THEN GameOver ELSE g.state_]

\* C25: every Playing update of Flappy Bird leaves the object (state, score,
\* the pipes with their scored flags, bird and timer) exactly as the reference
\* update does that tests every pipe for scoring and for collision
\* independently: the return on the first colliding pipe suppresses no score.
C25_AsReferenceUpdate ==
    [][FBPlayingStep =>
        \E gap_y \in GapSet :
            fb' = cleanupPipes(RefCheckCollisions(
                      FBMoved(fb, last'.dt, last'.shoot, gap_y)))]_vars

\* an update that returned on the first of two pipes, the second one unscored
C25_Witness ==
    /\ FBUpdated /\ last.was = Playing /\ last.hit = 1
    /\ fb.state_ = GameOver
    /\ Len(fb.pipes_) = 2 /\ ~fb.pipes_[2].scored
    /\ fb.score_ = 6 /\ frames = 2

\* C26: an update that regenerates the wave leaves invader_direction_, the
\* move timer, the state and the player as updateInvaders left them, the score
\* and the bullets as the collision pass left them, and replaces only the
\* invaders; reset() is what puts the direction at +1 and the timer at 0.
C26_RegenerationKeepsRest ==
    [][/\ (game = "si" /\ last'.op = "update" /\ si.state_ = Playing /\ last'.wave) =>
            LET g2 == SIMoved(si, last'.dt, last'.axis, last'.shoot)
                r  == CollideFrom(1, [bullets |-> g2.bullets_, invaders |-> g2.invaders_,
                                      score |-> g2.score_, hits |-> {}])
            IN  /\ si'.invader_direction_ = g2.invader_direction_
                /\ si'.invader_move_timer_ = g2.invader_move_timer_
                /\ si'.state_ = g2.state_
                /\ si'.player_ = g2.player_
                /\ si'.score_ = r.score
                /\ si'.bullets_ = SelectSeq(r.bullets, IsActive)
                /\ IsNewWave(si'.invaders_)
       /\ (game = "si" /\ last'.op = "reset") =>
            (si'.invader_direction_ = 1 /\ si'.invader_move_timer_ = 0)
      ]_vars

\* a wave has been regenerated while the formation was moving left
C26_Witness ==
    /\ SIUpdated /\ last.wave
    /\ si.invader_direction_ = -1
    /\ si.score_ = 500 /\ Len(si.invaders_) = 50

\* a wave has been regenerated between two ticks of the formation
C26_WitnessTimer ==
    /\ SIUpdated /\ last.wave
    /\ si.invader_move_timer_ = 450
    /\ si.score_ = 500 /\ Len(si.invaders_) = 50

\* C27: a Playing Space Invaders update adds dt to the move timer.  When the
\* sum exceeds 1 s the timer becomes 0 and every active invader, already
\* moved by velocity * dt, is stepped once by its velocity.x, which is 20 to
\* the right or to the left, however long the frame was; otherwise the timer
\* keeps the sum and the invaders move by velocity * dt only.  The timer is
\* at most 1 s after every call.
C27_OneStepPerTick ==
    [][game = "si" =>
        /\ si'.invader_move_timer_ >= 0 /\ si'.invader_move_timer_ <= 1000
        /\ (last'.op = "update" /\ si.state_ = Playing) =>
              LET dt == last'.dt
                  t1 == si.invader_move_timer_ + dt
                  t  == last'.tick
                  step(k) == IF t1 > 1000 THEN 20 * U * Sign(si.invaders_[k].vx) ELSE 0
                  landed == {<<si.invaders_[k].x + si.invaders_[k].vx * dt + step(k),
                               si.invaders_[k].y - (IF Reversed(t) THEN 10 * U ELSE 0)>> :
                                k \in DOMAIN si.invaders_}
              IN  /\ t.ticked <=> t1 > 1000
                  /\ si'.invader_move_timer_ = IF t1 > 1000 THEN 0 ELSE t1
                  /\ \A k \in DOMAIN si.invaders_ :
                        /\ si.invaders_[k].active
                        /\ si.invaders_[k].vx \in {20 * V, -20 * V}
                  /\ t.ticked =>
                        /\ DOMAIN t.before = DOMAIN si.invaders_
                        /\ DOMAIN t.after = DOMAIN si.invaders_
                        /\ \A k \in DOMAIN si.invaders_ :
                              /\ t.before[k].x = si.invaders_[k].x + si.invaders_[k].vx * dt
                              /\ t.after[k].x = t.before[k].x + (t.before[k].vx * U) \div V
                              /\ t.after[k].x = t.before[k].x + step(k)
                  /\ ~last'.wave =>
                        \A j \in DOMAIN si'.invaders_ :
                            <<si'.invaders_[j].x, si'.invaders_[j].y>> \in landed
      ]_vars

\* a frame of 1.05 s on the constructed game: the first invader moves from
\* 50 to 71 with the frame and is stepped once to 91, the timer is back at 0
C27_Witness ==
    /\ SIUpdated /\ last.was = Playing /\ last.dt = 1050 /\ last.tick.ticked
    /\ frames = 1 /\ si.score_ = 0
    /\ ~last.wave /\ ~Reversed(last.tick)
    /\ si.invader_move_timer_ = 0
    /\ last.tick.before[1].x = 71 * U
    /\ last.tick.after[1].x = 91 * U
    /\ si.invaders_[1].x = 91 * U

\* some pipe of the collection collides with the bird
PipeCollides(g) ==
    \E k \in DOMAIN g.pipes_ : checkCollision(g.pipes_[k], g.bird_)

\* C28 as claimed: a Playing update ends in GameOver only if a pipe collides
\* with the bird or the bird is at y = 10 or at y = 590.
C28_AsClaimed ==
    [][(FBPlayingStep /\ fb'.state_ = GameOver) =>
          \/ PipeCollides(fb')
          \/ fb'.bird_.y = 10 * U
          \/ fb'.bird_.y = 590 * U
      ]_vars

\* C28: Flappy Bird leaves Playing only in an update, and exactly when after
\* the update a pipe collides with the bird, or the bird is at most one unit
\* above its floor clamp (y <= 11), or at its ceiling clamp (y = 590).
C28_GameOverCauses ==
    [][game = "fb" =>
        /\ (fb.state_ = Playing /\ fb'.state_ = GameOver) => last'.op = "update"
        /\ FBPlayingStep =>
              (fb'.state_ = GameOver <=>
                  \/ PipeCollides(fb')
                  \/ fb'.bird_.y <= 11 * U
                  \/ fb'.bird_.y = 590 * U)
      ]_vars

\* the bird came down to y = 10.75 without being clamped, no pipe on the
\* screen, and the game is over
C28_Witness ==
    /\ FBUpdated /\ last.was = Playing /\ last.hit = 0
    /\ fb.state_ = GameOver
    /\ fb.pipes_ = <<>>
    /\ fb.bird_.y = 107500 /\ fb.bird_.velocity_y = -7500

\* C29 as claimed: a renderText call that renders (text not empty, the named
\* font there), finds no font cached under '<font_name>_<target_size>' and
\* can open a font file, opens a font at the target size, stores it under
\* that key and renders with it; a call that finds the key cached renders
\* with the cached font, and getTextWidth measures with it.
C29_AsClaimed ==
    LET c == fmgr.call
        target_size == TargetSize(c.scale)
        key == SizedFontKey(c.font_name, target_size)
    IN  /\ (game = "font" /\ c.op = "render" /\ ~c.text_empty /\ c.had_font) =>
              /\ target_size >= 8 /\ target_size <= 128
              /\ (~c.cached_before /\ c.can_open) =>
                    /\ c.opened
                    /\ key \in DOMAIN fmgr.obj.fonts_
                    /\ c.used = fmgr.obj.fonts_[key]
                    /\ c.used.size = target_size
              /\ c.cached_before => (~c.opened /\ c.used = fmgr.obj.fonts_[key])
        /\ (game = "font" /\ c.op = "width" /\ ~c.text_empty /\ c.cached_before) =>
              (c.is_sized_font /\ c.used = fmgr.obj.fonts_[key])

\* C30: the frame in which a shoot press activates a game's menu item calls
\* no game's update(); in the frame after it isShootJustPressed() is false,
\* so the game's update, if called, sees no press and neither fires, jumps
\* nor restarts; and a game's update sees a press only if the shoot control
\* was up at the frame before.
C30_ActivationPressUnseen ==
    [][game = "gm" =>
        /\ (gm'.call.activated >= 0 /\ gm'.call.activated < NUM_GAMES) =>
              /\ gm'.call.updated = -1
              /\ gm'.app_state_ = InGame
              /\ gm'.current_game_index_ = gm'.call.activated
              /\ isShootJustPressed(gm'.input_)
              /\ gm'.call.activated = 0 => si' = CanonicalSI
              /\ gm'.call.activated = 1 => fb' = CanonicalFB
        /\ (gm.call.activated >= 0 /\ gm.call.activated < NUM_GAMES) =>
              /\ ~isShootJustPressed(gm'.input_)
              /\ ~gm'.call.shoot
              /\ ~gm'.call.fired /\ ~gm'.call.jumped /\ ~gm'.call.did_reset
              /\ gm'.call.updated = 0 => Len(si'.bullets_) = 0
              /\ gm'.call.updated = 1 =>
                    fb'.bird_.velocity_y < 0 /\ fb'.state_ = Playing
        /\ gm'.call.shoot => ~gm.input_.curr_shoot_pressed_
      ]_vars

\* Space Invaders was activated in the frame before; in this frame, with the
\* shoot control still held, its update was called and fired nothing
C30_Witness ==
    /\ game = "gm" /\ gm.call.activated_before = 0
    /\ gm.call.updated = 0
    /\ gm.input_.curr_shoot_pressed_ /\ gm.input_.prev_shoot_pressed_
    /\ ~gm.call.shoot /\ ~gm.call.fired
    /\ si.bullets_ = <<>> /\ si.invader_move_timer_ = 16

\* a later press of the shoot control is seen by the game: a bullet flies
C30_WitnessLaterPress ==
    /\ game = "gm" /\ gm.call.updated = 0 /\ gm.call.shoot /\ gm.call.fired
    /\ Len(si.bullets_) = 1

\* C31: one continuous press of escape makes at most one change of
\* app_state_.  A frame that finds escape pressed after a frame that found
\* it pressed changes app_state_ only by a window-close event or a menu
\* item; escape pressed after a sample that found it released takes InGame
\* to Menu and Menu to Quitting (before the frame's update).
C31_OneTransitionPerEscape ==
    [][game = "gm" =>
        LET quiet == ~gm'.call.quit /\ gm'.call.activated = -1
        IN  /\ (gm.escape_was_pressed_ /\ gm'.escape_was_pressed_ /\ quiet)
                  => gm'.app_state_ = gm.app_state_
            /\ (~gm.escape_was_pressed_ /\ gm'.escape_was_pressed_ /\ quiet)
                  => /\ gm.app_state_ = InGame => gm'.app_state_ = Menu
                     /\ gm.app_state_ = Menu => gm'.app_state_ = Quitting
            /\ (~gm'.escape_was_pressed_ /\ quiet) => gm'.app_state_ = gm.app_state_
      ]_vars

\* escape, pressed in a game, took the application to the menu, and the
\* frame after, escape still held, has left it in the menu
C31_Witness ==
    /\ game = "gm" /\ frames = 3
    /\ gm.call.app_before = Menu /\ gm.call.escape_before
    /\ gm.escape_was_pressed_
    /\ gm.call.menu_updated /\ gm.call.activated = -1 /\ ~gm.call.quit
    /\ gm.app_state_ = Menu /\ gm.running_
    /\ si.invader_move_timer_ = 0 /\ gm.current_game_index_ = 0

\* C32: Quitting is final and ends the loop.  A frame that finds the
\* application Quitting leaves it Quitting, runs no menu and no game update,
\* changes neither menu nor games, and clears running_; a frame whose
\* handleEvents made it Quitting (window closed, or escape in the menu) has
\* cleared running_ by its end; running_ is cleared only when Quitting; and
\* every Quitting application with the loop still running gets running_
\* cleared.
QuittingFrame ==
    /\ gm'.app_state_ = Quitting
    /\ ~gm'.running_
    /\ gm'.call.updated = -1 /\ ~gm'.call.menu_updated /\ gm'.call.activated = -1
    /\ gm'.main_menu_ = gm.main_menu_
    /\ gm'.current_game_index_ = gm.current_game_index_
    /\ si' = si /\ fb' = fb

C32_QuittingIsFinal ==
    /\ [][game = "gm" =>
            /\ gm.app_state_ = Quitting => QuittingFrame
            /\ gm'.call.quit => QuittingFrame
            /\ (gm.app_state_ = Menu /\ ~gm.escape_was_pressed_
                    /\ gm'.escape_was_pressed_) => QuittingFrame
            /\ ~gm.running_ => gm' = gm
         ]_vars
    /\ [](game = "gm" /\ ~gm.running_ => gm.app_state_ = Quitting)
    /\ ((game = "gm" /\ gm.app_state_ = Quitting) ~> ~gm.running_)

\* the loop has ended in the frame after the one in which the Quit item
\* was activated
C32_Witness ==
    /\ game = "gm"
    /\ gm.call.app_before = Quitting /\ gm.call.activated_before = NUM_GAMES
    /\ gm.app_state_ = Quitting /\ ~gm.running_
    /\ ~gm.call.quit

\* the loop has ended in the frame that found escape pressed in the menu
C32_WitnessEscape ==
    /\ game = "gm" /\ frames > 1
    /\ gm.call.app_before = Menu /\ ~gm.call.escape_before /\ gm.escape_was_pressed_
    /\ ~gm.call.quit
    /\ gm.app_state_ = Quitting /\ ~gm.running_

\* C33: the selected index is always the index of a menu item, and a
\* MainMenu::update moves it only on a press that the update before did
\* not see: up alone to the item before (from item 0 to the last item),
\* down alone to the item after (from the last item to item 0), both at
\* once or neither nowhere; a frame without a menu update leaves the menu
\* as it was.
MenuStep(m, m2) ==
    LET up_edge == m2.prev_up_ /\ ~m.prev_up_
        down_edge == m2.prev_down_ /\ ~m.prev_down_
        i == m.selected_index_
    IN  m2.selected_index_ =
            IF up_edge /\ ~down_edge
            THEN (IF i = 0 THEN NUM_ITEMS - 1 ELSE i - 1)
            ELSE IF down_edge /\ ~up_edge
            THEN (IF i = NUM_ITEMS - 1 THEN 0 ELSE i + 1)
            ELSE i

C33_SelectionValidAndEdgeTriggered ==
    /\ [](game = "gm" => gm.main_menu_.selected_index_ \in 0 .. (NUM_ITEMS - 1))
    /\ [][game = "gm" =>
             IF gm'.call.menu_updated
             THEN MenuStep(gm.main_menu_, gm'.main_menu_)
             ELSE gm'.main_menu_ = gm.main_menu_
         ]_vars

\* the fifth frame's press of down has taken the selection from the last
\* item to item 0 (down was pressed, released, pressed, released before)
C33_Witness ==
    /\ game = "gm" /\ frames = 5
    /\ gm.call.menu_updated
    /\ gm.main_menu_.prev_down_ /\ ~gm.main_menu_.prev_up_
    /\ gm.main_menu_.selected_index_ = 0
    /\ gm.call.activated = -1 /\ gm.app_state_ = Menu

\* down held for two frames has moved the selection by one item only
C33_WitnessHeld ==
    /\ game = "gm" /\ frames = 2
    /\ gm.call.menu_updated
    /\ gm.main_menu_.prev_down_ /\ ~gm.main_menu_.prev_up_
    /\ gm.main_menu_.selected_index_ = 1
    /\ gm.call.activated = -1 /\ gm.call.activated_before = -1

\* up from item 0 has selected the last item
C33_WitnessUp ==
    /\ game = "gm" /\ frames = 1
    /\ gm.call.menu_updated
    /\ gm.main_menu_.prev_up_ /\ ~gm.main_menu_.prev_down_
    /\ gm.main_menu_.selected_index_ = NUM_ITEMS - 1

\* C34: the application is in a game only through a game's menu item, and
\* the item leaves the game it names, and no other, freshly reset.  A frame
\* that activates the item of game i (i < NUM_GAMES) ends InGame with
\* current_game_index_ = i and game i Playing with score 0, in its reset
\* state, the other game untouched; a frame that ends InGame without an
\* activation began InGame with the same game.
C34_EntryResetsChosenGame ==
    /\ [](game = "gm" => gm.current_game_index_ \in 0 .. (NUM_GAMES - 1))
    /\ [][game = "gm" =>
            LET i == gm'.call.activated
            IN  /\ i \in 0 .. (NUM_GAMES - 1) =>
                      /\ gm'.app_state_ = InGame
                      /\ gm'.current_game_index_ = i
                      /\ i = 0 => /\ si'.state_ = Playing /\ si'.score_ = 0
                                  /\ si' = CanonicalSI
                                  /\ fb' = fb
                      /\ i = 1 => /\ fb'.state_ = Playing /\ fb'.score_ = 0
                                  /\ fb' = CanonicalFB
                                  /\ si' = si
                /\ (gm'.app_state_ = InGame /\ i = -1) =>
                      /\ gm.app_state_ = InGame
                      /\ gm'.current_game_index_ = gm.current_game_index_
         ]_vars

\* Flappy Bird, left in GameOver by escape, has been entered again from the
\* menu and is Playing with the bird at its start
C34_Witness ==
    /\ game = "gm"
    /\ gm.call.activated = 1 /\ ~gm.call.was_fresh
    /\ gm.call.app_before = Menu
    /\ gm.app_state_ = InGame /\ gm.current_game_index_ = 1
    /\ fb = CanonicalFB

\* Space Invaders, left by escape after updates had changed it, has been
\* entered again from the menu
C34_WitnessMidPlay ==
    /\ game = "gm" /\ frames = 5
    /\ gm.call.activated = 0 /\ ~gm.call.was_fresh
    /\ gm.call.app_before = Menu
    /\ gm.app_state_ = InGame /\ gm.current_game_index_ = 0
    /\ si = CanonicalSI

\* C35: whenever an update() or reset() of Space Invaders has returned, and
\* in the constructed game, the invader collection holds at least 1 and at
\* most 50 invaders, whether the game is Playing or over.
C35_InvadersNeverEmpty ==
    game = "si" => /\ Len(si.invaders_) >= 1
                   /\ Len(si.invaders_) <= 50

\* the update's bullet has destroyed the one invader left, which was moving
\* left, and the collection holds the 50 of the next wave
C35_Witness ==
    /\ SIUpdated /\ last.was = Playing /\ Card(last.hits) = 1 /\ last.wave
    /\ si.invader_direction_ = -1
    /\ Len(si.invaders_) = 50

\* the game is over with its invaders still in the collection
C35_WitnessGameOver ==
    /\ SIUpdated /\ last.was = Playing /\ si.state_ = GameOver
    /\ Len(si.invaders_) >= 1

\* the indices, in order, of the invaders of a collection of n that the
\* collision pass with the given hits left active
Survivors(n, hits) ==
    LET hit == {h[2] : h \in hits}
        Kept(k) == k \notin hit
    IN  SelectSeq([k \in 1 .. n |-> k], Kept)

\* C36: the formation moves as one body.  Whenever a call has returned all
\* invaders of the collection have the same velocity.x, 20 or -20; an
\* update that starts no new wave moves every invader it keeps by the same
\* displacement, never upwards; a call on a finished game moves none.
\* (velocity.y is 0 from the constructor on and never assigned; the model
\* carries velocity.x only.)
C36_FormationRigid ==
    /\ [](game = "si" =>
             /\ \A k \in DOMAIN si.invaders_ : si.invaders_[k].vx \in {20 * V, -20 * V}
             /\ \A j, k \in DOMAIN si.invaders_ :
                    si.invaders_[j].vx = si.invaders_[k].vx)
    /\ [][(game = "si" /\ last'.op = "update") =>
            IF si.state_ # Playing THEN si'.invaders_ = si.invaders_
            ELSE ~last'.wave =>
                LET idx == Survivors(Len(si.invaders_), last'.hits)
                    dx(n) == si'.invaders_[n].x - si.invaders_[idx[n]].x
                    dy(n) == si'.invaders_[n].y - si.invaders_[idx[n]].y
                IN  /\ Len(idx) = Len(si'.invaders_)
                    /\ \A n \in DOMAIN si'.invaders_ :
                          /\ dx(n) = dx(1)
                          /\ dy(n) = dy(1)
                          /\ dy(n) <= 0
                          /\ dy(n) = IF Reversed(last'.tick) THEN -10 * U ELSE 0
         ]_vars

\* an update has destroyed invaders of a full wave, moved the others by a
\* formation step and turned them round at the edge
C36_Witness ==
    /\ SIUpdated /\ last.was = Playing
    /\ last.hits # {} /\ ~last.wave
    /\ Reversed(last.tick)
    /\ Len(si.invaders_) >= 40 /\ Len(si.invaders_) < 50
    /\ si.invaders_[1].vx = si.invaders_[Len(si.invaders_)].vx

\* C37: whenever a call has returned, the pipes of the collection stand in
\* the order they were spawned in with strictly increasing x, each more
\* than 80 units right of the one before, and at most one of them overlaps
\* the bird horizontally.  (Checked for every update of the model, of 25 ms
\* as in the claim and of 100 and 250 ms.)
C37_PipesOrderedAndApart ==
    game = "fb" =>
        /\ \A k \in DOMAIN fb.pipes_ :
              k > 1 => /\ fb.pipes_[k - 1].x < fb.pipes_[k].x
                       /\ fb.pipes_[k].x - fb.pipes_[k - 1].x > 80 * U
        /\ Card({k \in DOMAIN fb.pipes_ : HOverlap(fb.pipes_[k], fb.bird_)}) <= 1

\* an update of at most a thirtieth of a second has returned with three
\* pipes in the collection, the newest just spawned, and the bird within
\* the width of one of them
C37_Witness ==
    /\ FBUpdated /\ last.dt <= 33 /\ last.spawned
    /\ Len(fb.pipes_) = 3
    /\ Card({k \in DOMAIN fb.pipes_ : HOverlap(fb.pipes_[k], fb.bird_)}) = 1

\* C38: a game whose player never fires, updated again and again with a
\* frame time above 0 and at most a thirtieth of a second, is eventually
\* over; no invader is ever destroyed on the way and the formation only
\* comes down.
C38_IdleGameEnds ==
    /\ <>(game = "si" /\ si.state_ = GameOver)
    /\ [](game = "si" => Len(si.invaders_) = 50 /\ si.score_ = 0)

\* the game is over: the formation has dropped 31 times and its lowest row
\* stands at y = 70
C38_Witness ==
    /\ SIUpdated /\ last.was = Playing /\ si.state_ = GameOver
    /\ last.dt = 33 /\ ~last.shoot
    /\ Reversed(last.tick)
    /\ si.invaders_[50].y = 70 * U /\ si.invaders_[1].y = 190 * U
    /\ si.score_ = 0 /\ Len(si.bullets_) = 0

=============================================================================
